---- MODULE Spec2Model ----
(***************************************************************************)
(* The authenticated transport layer of cybership-carrier:                 *)
(*   UpsAuthClient  (src/src/carriers/ups/UpsAuthClient.ts)  token cache   *)
(*   HttpClient     (src/src/infra/HttpClient.ts)            retry on 401  *)
(*   AppError kinds (src/src/core/errors.ts)                               *)
(*   UpsRatingOperation, UpsMapper (src/src/carriers/ups)  rating call      *)
(*   OperationRegistry (src/src/registry/OperationRegistry.ts)             *)
(* Several request() calls run on one event loop and share one             *)
(* UpsAuthClient.  An action is one synchronous block of the code: what    *)
(* runs between two awaits.  Time is Date.now() in milliseconds.           *)
(***************************************************************************)
EXTENDS Integers, Sequences, FiniteSets, TLC

\* ------------------------------------------------------------------ bounds
MaxTokens == 2
MaxNow == 10000
TickMs == 5000
MaxCalls == 3
MaxShipments == 2
MaxPackages == 2

\* The callers whose calls overlap.
Procs == {1, 2}

\* ------------------------------------------------------- program constants
EXPIRY_BUFFER_S == 60
MsPerSecond == 1000
DefaultTimeoutMs == 10000

\* --------------------------------------------------------------- the state
VARIABLES
    now,          \* Date.now()
    cachedToken,  \* UpsAuthClient.cachedToken (Null: null)
    expiresAt,    \* UpsAuthClient.expiresAt
    cachedAt,     \* history: the instant the cached token's response was processed
    cachedTtl,    \* history: the expires_in of that response
    cleared,      \* history: clearToken() ran and accessToken() was not invoked since
    issued,       \* tokens the token endpoint has issued so far
    req,          \* per caller: the frame of its request() call
    operations,   \* OperationRegistry.operations
    calls,        \* history: the calls made on the registry, with their results
    mapper        \* a call of a UpsMapper function: its argument and its result

transportVars == <<now, cachedToken, expiresAt, cachedAt, cachedTtl, cleared, issued, req>>
registryVars == <<operations, calls>>
mapperVars == <<mapper>>
vars == <<now, cachedToken, expiresAt, cachedAt, cachedTtl, cleared, issued, req,
          operations, calls, mapper>>

\* ------------------------------------------------------------------ values
\* A bearer token: the n-th one issued, with the instant the carrier stops
\* honouring it (issue instant + expires_in).
Null == [id |-> 0, exp |-> 0]
Token(n, e, t) == [id |-> n, exp |-> t + e * MsPerSecond]

\* A carrier error body: { response: { errors: [ {code, message}, ... ] } },
\* or something of another shape.
CarrierError == [code |-> "10400", message |-> <<"Invalid grant_type", 0>>]
Undefined == [code |-> "undefined", message |-> <<"undefined", 0>>]
NoBody == [wellFormed |-> FALSE, errors |-> <<>>]
ErrorBodies ==
    { [wellFormed |-> TRUE, errors |-> <<CarrierError>>],
      [wellFormed |-> TRUE, errors |-> <<>>],
      NoBody }

\* An underlying failure, as a catch block sees it.
\*   axios:    axios.isAxiosError(error)
\*   isError:  error instanceof Error
\*   response: error.response is present;  status, data: error.response.*
\*   at:       the transport attempt it ended (0: the token endpoint)
Failure(ax, isErr, hasResp, s, d, k) ==
    [axios |-> ax, isError |-> isErr, response |-> hasResp,
     status |-> s, data |-> d, at |-> k]
NoFailure == Failure(FALSE, FALSE, FALSE, 0, NoBody, -1)
HttpFailure(s, d, k) == Failure(TRUE, TRUE, TRUE, s, d, k)
NetworkFailure(k) == Failure(TRUE, TRUE, FALSE, 0, NoBody, k)
LocalFailure(isErr, k) == Failure(FALSE, isErr, FALSE, 0, NoBody, k)
\* A ZodError: of the token response (0), of the rate response of attempt k, or
\* of the input of execute() (-1: no network call).
ZodErrorAt(k) == LocalFailure(TRUE, k)
ZodError == ZodErrorAt(0)

\* { cause: error instanceof Error ? error : undefined }
CauseOf(error) == IF error.isError THEN error ELSE NoFailure

\* AppError and its subclasses (src/src/core/errors.ts); `code` is the kind.
AppError(code, message, httpStatus, carrierCode, cause) ==
    [ok |-> FALSE, code |-> code, message |-> message, httpStatus |-> httpStatus,
     carrierCode |-> carrierCode, cause |-> cause, data |-> 0]
AuthenticationError(message, cause) ==
    AppError("AUTHENTICATION_ERROR", message, -1, "undefined", cause)
CarrierApiError(message, httpStatus, carrierCode, cause) ==
    AppError("CARRIER_API_ERROR", message, httpStatus, carrierCode, cause)
RateLimitError(message, cause) ==
    [CarrierApiError(message, 429, "undefined", cause) EXCEPT !.code = "RATE_LIMIT_ERROR"]
ValidationError(message, cause) ==
    AppError("VALIDATION_ERROR", message, -1, "undefined", cause)
OperationNotFoundError(key) ==
    AppError("OPERATION_NOT_FOUND", <<"No operation registered for", key>>, -1,
             "undefined", NoFailure)
\* error instanceof CarrierApiError: the class, or its subclass RateLimitError.
IsCarrierApiError(error) == error.code \in {"CARRIER_API_ERROR", "RATE_LIMIT_ERROR"}
\* request() resolved with the decoded body `data`.
Success(data) ==
    [ok |-> TRUE, code |-> "none", message |-> <<"none", 0>>, httpStatus |-> -1,
     carrierCode |-> "undefined", cause |-> NoFailure, data |-> data]
Unsettled == Success(0)

\* ------------------------------------------- UpsAuthClient: pure parts
\* z.coerce.number(): Number(x).  A number or a numeric string gives its value,
\* anything else NaN, which no number schema accepts.
Num(v) == [numeric |-> TRUE, v |-> v]
NotANumber == [numeric |-> FALSE, v |-> 0]

\* A body of a 2xx answer of the token endpoint.  `rest`: token_type, issued_at,
\* client_id, scope, refresh_count and status are all there and well typed.
TokenBody(token, expiresIn, rest) ==
    [access_token |-> token, expires_in |-> expiresIn, rest |-> rest]
NoTokenBody == TokenBody(Null, NotANumber, FALSE)

\* A schema that declares access_token and expires_in only.
TokenResponseSchemaTwoFields(data) ==
    /\ data.access_token # Null
    /\ data.expires_in.numeric
    /\ data.expires_in.v > 0

\* TokenResponseSchema.parse(response.data) does not throw.
TokenResponseSchemaOk(data) ==
    /\ data.rest
    /\ data.access_token # Null
    /\ data.expires_in.numeric
    /\ data.expires_in.v > 0

\* accessToken(), line 44, with the comparison the wrong way round / inclusive.
CacheHitInverted(token, exp, t) == token # Null /\ t >= exp
CacheHitInclusive(token, exp, t) == token # Null /\ t <= exp

\* accessToken(), line 44: the cache may be served.
CacheHit(token, exp, t) == token # Null /\ t < exp

\* The expiry without the safety buffer.
ExpiresAtUnbuffered(t, expiresIn) == t + expiresIn * MsPerSecond

\* authenticate(), lines 75-76.
ExpiresAtFor(t, expiresIn) == t + (expiresIn - EXPIRY_BUFFER_S) * MsPerSecond

\* UpsErrorResponseSchema.safeParse(data), then errors[0].
FirstError(data) ==
    IF data.wellFormed /\ Len(data.errors) > 0 THEN data.errors[1] ELSE Undefined

\* UpsAuthClient.toStructuredError taking 401 alone for an authentication failure.
AuthToStructuredError401Only(error) ==
    IF ~error.axios \/ ~error.response
    THEN CarrierApiError(<<"UPS OAuth request failed: error.message", 0>>, 0,
                         "undefined", CauseOf(error))
    ELSE LET firstError == FirstError(error.data)
             message == IF firstError # Undefined
                        THEN firstError.message
                        ELSE <<"UPS OAuth request failed (HTTP status)", error.status>>
         IN  IF error.status = 401
             THEN AuthenticationError(message, error)
             ELSE IF error.status = 429
                  THEN RateLimitError(message, error)
                  ELSE CarrierApiError(message, error.status, firstError.code, error)

\* UpsAuthClient.toStructuredError
AuthToStructuredError(error) ==
    IF ~error.axios \/ ~error.response
    THEN CarrierApiError(<<"UPS OAuth request failed: error.message", 0>>, 0,
                         "undefined", CauseOf(error))
    ELSE LET firstError == FirstError(error.data)
             message == IF firstError # Undefined
                        THEN firstError.message
                        ELSE <<"UPS OAuth request failed (HTTP status)", error.status>>
             carrierCode == firstError.code
         IN  IF error.status = 401 \/ error.status = 403
             THEN AuthenticationError(message, error)
             ELSE IF error.status = 429
                  THEN RateLimitError(message, error)
                  ELSE CarrierApiError(message, error.status, carrierCode, error)

\* --------------------------------------------------- HttpClient: pure parts
\* The status test taking 403 for a stale token too.
IsUnauthorizedOrForbidden(error) ==
    error.axios /\ error.response /\ error.status \in {401, 403}
\* request(), line 32 and retryWithFreshToken(), lines 45-48.
Is401(error) == error.axios /\ error.response /\ error.status = 401

\* HttpClient.toStructuredError without the 429 branch / rethrowing what it caught.
HttpToStructuredErrorNo429(error) ==
    IF ~error.axios
    THEN CarrierApiError(<<"error.message", 0>>, 0, "undefined", CauseOf(error))
    ELSE IF error.response
         THEN CarrierApiError(<<"HTTP", error.status>>, error.status, "undefined", error)
         ELSE CarrierApiError(<<"error.message", 0>>, 0, "undefined", error)
HttpRethrows(error) ==
    AppError("AxiosError", <<"error.message", 0>>, -1, "undefined", error)

\* HttpClient.toStructuredError
HttpToStructuredError(error) ==
    IF ~error.axios
    THEN CarrierApiError(IF error.isError THEN <<"error.message", 0>>
                                          ELSE <<"Unknown HTTP error", 0>>,
                         0, "undefined", CauseOf(error))
    ELSE IF error.response /\ error.status = 429
         THEN RateLimitError(<<"Rate limit exceeded", 0>>, error)
         ELSE IF error.response
              THEN CarrierApiError(<<"HTTP", error.status>>, error.status,
                                   "undefined", error)
              ELSE CarrierApiError(<<"error.message", 0>>, 0, "undefined", error)

\* An envelope (AxiosRequestConfig): method, url, data (<<>>: none) and headers.
\* The headers object gives every header name its value, NoHeader when the
\* object has no such property (config.headers undefined: none at all).
HeaderNames == {"Authorization", "Accept"}
NoHeader == <<"none", Null>>
Bearer(token) == <<"Bearer", token>>
Envelope(method, url, data, headers) ==
    [method |-> method, url |-> url, data |-> data, headers |-> headers]
NoHeaders == [n \in HeaderNames |-> NoHeader]
PlainEnvelope == Envelope("GET", <<"/path", "">>, <<>>, NoHeaders)

\* executeWithToken() spreading the envelope's headers after Authorization.
WithTokenEnvelopeLast(config, token) ==
    [config EXCEPT !.headers =
        [n \in HeaderNames |->
            IF config.headers[n] # NoHeader THEN config.headers[n]
            ELSE IF n = "Authorization" THEN Bearer(token) ELSE NoHeader]]

\* executeWithToken(), lines 62-65: the request that goes out,
\* { ...config, headers: { ...config.headers, Authorization: `Bearer ${token}` } }.
WithToken(config, token) ==
    [config EXCEPT !.headers =
        [n \in HeaderNames |->
            IF n = "Authorization" THEN Bearer(token) ELSE config.headers[n]]]

\* ------------------------------------------------ core/types.ts: the domain
\* A string property is the sequence of its characters, or is not there.
Str(s) == [defined |-> TRUE, s |-> s]
Absent == [defined |-> FALSE, s |-> <<>>]
\* An array property, or none.
Arr(items) == [defined |-> TRUE, items |-> items]
NoArr == [defined |-> FALSE, items |-> <<>>]

Address(line1, line2, city, stateCode, postalCode, countryCode) ==
    [line1 |-> line1, line2 |-> line2, city |-> city, stateCode |-> stateCode,
     postalCode |-> postalCode, countryCode |-> countryCode]
Package(weightLbs, lengthIn, widthIn, heightIn) ==
    [weightLbs |-> weightLbs, lengthIn |-> lengthIn, widthIn |-> widthIn,
     heightIn |-> heightIn]
RateRequest(origin, destination, packages) ==
    [origin |-> origin, destination |-> destination, packages |-> packages]

\* z.string().min(n) / z.string().length(n) / z.number().positive()
MinLen(x, n) == x.defined /\ Len(x.s) >= n
HasLen(x, n) == x.defined /\ Len(x.s) = n
Positive(x) == x.numeric /\ x.v > 0

AddressSchemaOk(a) ==
    /\ MinLen(a.line1, 1)
    /\ MinLen(a.city, 1)
    /\ HasLen(a.stateCode, 2)
    /\ MinLen(a.postalCode, 1)
    /\ HasLen(a.countryCode, 2)
PackageSchemaOk(pkg) ==
    /\ Positive(pkg.weightLbs)
    /\ Positive(pkg.lengthIn)
    /\ Positive(pkg.widthIn)
    /\ Positive(pkg.heightIn)
\* RateRequestSchema.safeParse(input).success
RateRequestSchemaOk(input) ==
    /\ AddressSchemaOk(input.origin)
    /\ AddressSchemaOk(input.destination)
    /\ input.packages.defined
    /\ Len(input.packages.items) >= 1
    /\ \A i \in 1..Len(input.packages.items) : PackageSchemaOk(input.packages.items[i])

\* ------------------------------------------------------------- UpsMapper
\* String(n) of a natural number: its decimal digits.
Digit(d) == <<"0", "1", "2", "3", "4", "5", "6", "7", "8", "9">>[d + 1]
RECURSIVE DecimalString(_)
DecimalString(n) ==
    IF n < 10 THEN <<Digit(n)>> ELSE DecimalString(n \div 10) \o <<Digit(n % 10)>>

\* toUpsAddress pushing line2 whenever the property is there, empty or not.
ToUpsAddressAnyLine2(address) ==
    [AddressLine |-> IF address.line2.defined
                     THEN <<address.line1.s, address.line2.s>>
                     ELSE <<address.line1.s>>,
     City |-> address.city.s,
     StateProvinceCode |-> address.stateCode.s,
     PostalCode |-> address.postalCode.s,
     CountryCode |-> address.countryCode.s]
ToUpsAddress(address) ==
    [AddressLine |-> IF address.line2.defined /\ address.line2.s # <<>>
                     THEN <<address.line1.s, address.line2.s>>
                     ELSE <<address.line1.s>>,
     City |-> address.city.s,
     StateProvinceCode |-> address.stateCode.s,
     PostalCode |-> address.postalCode.s,
     CountryCode |-> address.countryCode.s]
ToUpsPackage(pkg) ==
    [PackagingType |-> [Code |-> "02", Description |-> "Package"],
     Dimensions |-> [UnitOfMeasurement |-> "IN",
                     Length |-> DecimalString(pkg.lengthIn.v),
                     Width |-> DecimalString(pkg.widthIn.v),
                     Height |-> DecimalString(pkg.heightIn.v)],
     PackageWeight |-> [UnitOfMeasurement |-> "LBS",
                        Weight |-> DecimalString(pkg.weightLbs.v)]]
ToUpsRequest(input) ==
    [Shipper |-> [Name |-> "Shipper", ShipperNumber |-> "",
                  Address |-> ToUpsAddress(input.origin)],
     ShipTo |-> [Name |-> "Recipient", Address |-> ToUpsAddress(input.destination)],
     ShipFrom |-> [Name |-> "Sender", Address |-> ToUpsAddress(input.origin)],
     NumOfPieces |-> DecimalString(Len(input.packages.items)),
     Package |-> [i \in 1..Len(input.packages.items) |->
                    ToUpsPackage(input.packages.items[i])]]

\* A rated shipment of a rate response: Service.Code, Service.Description,
\* TotalCharges.MonetaryValue and the optional transit properties.
RatedShipment(code, description, charge, gDays, gDate, tDays, tDate) ==
    [Code |-> code, Description |-> description, MonetaryValue |-> charge,
     GuaranteedDays |-> gDays, GuaranteedDate |-> gDate,
     TransitDays |-> tDays, TransitDate |-> tDate]

\* Number.parseInt(s, 10) / Number.parseFloat(s) of a string of decimal digits;
\* NaN for a string that does not start with one.
DigitValue(c) == CHOOSE d \in 0..9 : Digit(d) = c
IsDigit(c) == \E d \in 0..9 : Digit(d) = c
RECURSIVE LeadingNumber(_, _)
LeadingNumber(s, acc) ==
    IF s = <<>> \/ ~IsDigit(Head(s)) THEN acc
    ELSE LeadingNumber(Tail(s), 10 * acc + DigitValue(Head(s)))
ParseNumber(s) ==
    IF s = <<>> \/ ~IsDigit(Head(s)) THEN NotANumber ELSE Num(LeadingNumber(s, 0))

\* a ?? b on optional strings
Coalesce(a, b) == IF a.defined THEN a ELSE b

\* fromUpsResponse: one quote per rated shipment, in order.  An optional number
\* of a quote that is not set is `unset`.
Unset == [set |-> FALSE, numeric |-> FALSE, v |-> 0]
SetTo(n) == [set |-> TRUE, numeric |-> n.numeric, v |-> n.v]
\* The map callback preferring TimeInTransit over GuaranteedDelivery.
QuoteTransitFirst(s) ==
    LET daysInTransit == Coalesce(s.TransitDays, s.GuaranteedDays)
        deliveryDate == Coalesce(s.TransitDate, s.GuaranteedDate)
    IN  [carrier |-> "UPS",
         serviceCode |-> s.Code,
         serviceName |-> Coalesce(s.Description, Str(s.Code)).s,
         totalChargeUSD |-> ParseNumber(s.MonetaryValue),
         estimatedDeliveryDays |->
             IF daysInTransit.defined THEN SetTo(ParseNumber(daysInTransit.s)) ELSE Unset,
         guaranteedDeliveryDate |-> deliveryDate]
Quote(s) ==
    LET daysInTransit == Coalesce(s.GuaranteedDays, s.TransitDays)
        deliveryDate == Coalesce(s.GuaranteedDate, s.TransitDate)
    IN  [carrier |-> "UPS",
         serviceCode |-> s.Code,
         serviceName |-> Coalesce(s.Description, Str(s.Code)).s,
         totalChargeUSD |-> ParseNumber(s.MonetaryValue),
         estimatedDeliveryDays |->
             IF daysInTransit.defined THEN SetTo(ParseNumber(daysInTransit.s)) ELSE Unset,
         guaranteedDeliveryDate |-> deliveryDate]
FromUpsResponse(shipments) == [i \in 1..Len(shipments) |-> Quote(shipments[i])]

\* ------------------------------------------------------ the environment
\* expires_in values the token endpoint hands out, in seconds.
ExpiresIns == {5, 70}
AuthStatuses == {400, 401, 403, 429}
TransportStatuses == {401, 403, 429, 500}

\* What axios.post to the token endpoint settles with.
AuthAnswer(ok, data, error) == [ok |-> ok, data |-> data, error |-> error]
NoAnswer == AuthAnswer(FALSE, NoTokenBody, NoFailure)

\* A token response that parses: the n-th token, issued at instant t for e seconds.
IssuedAnswer(n, e, t) ==
    AuthAnswer(TRUE, TokenBody(Token(n, e, t), Num(e), TRUE), NoFailure)

\* The other answers: 2xx bodies the schema rejects, error statuses, no answer.
FailingAuthAnswers ==
    {AuthAnswer(TRUE, d, NoFailure) :
        d \in {TokenBody(Null, Num(70), TRUE),
               TokenBody(Token(1, 70, 0), Num(0), TRUE),
               TokenBody(Token(1, 70, 0), NotANumber, TRUE),
               TokenBody(Token(1, 70, 0), Num(70), FALSE)}}
    \cup {AuthAnswer(FALSE, NoTokenBody, HttpFailure(s, d, 0)) :
            s \in AuthStatuses, d \in ErrorBodies}
    \cup {AuthAnswer(FALSE, NoTokenBody, NetworkFailure(0))}

\* The failing answers two concurrent callers are checked with: one of each way
\* authenticate() fails (schema, status with a carrier error body, no answer).
CommonFailingAuthAnswers ==
    {AuthAnswer(TRUE, TokenBody(Null, Num(70), TRUE), NoFailure),
     AuthAnswer(FALSE, NoTokenBody, HttpFailure(401, NoBody, 0)),
     AuthAnswer(FALSE, NoTokenBody, NetworkFailure(0))}

\* What this.client.request settles with: a decoded body, or a failure.
\* The body of the k-th attempt of a call is k.
TransportAnswer(ok, data, error) == [ok |-> ok, data |-> data, error |-> error]
TransportAnswers(k) ==
    {TransportAnswer(TRUE, k, NoFailure)}
    \cup {TransportAnswer(FALSE, 0, HttpFailure(s, NoBody, k)) : s \in TransportStatuses}
    \cup {TransportAnswer(FALSE, 0, e) :
            e \in {NetworkFailure(k), LocalFailure(TRUE, k), LocalFailure(FALSE, k)}}

CommonTransportAnswers(k) ==
    {TransportAnswer(TRUE, k, NoFailure),
     TransportAnswer(FALSE, 0, HttpFailure(401, NoBody, k)),
     TransportAnswer(FALSE, 0, HttpFailure(429, NoBody, k)),
     TransportAnswer(FALSE, 0, NetworkFailure(k))}

\* The envelopes callers of request() pass: with and without headers of their
\* own, an Authorization header among them.
Envelopes ==
    {Envelope("GET", <<"/path", "">>, <<>>, h) :
        h \in [HeaderNames -> {NoHeader, <<"caller", Null>>}]}

\* The inputs callers of execute() pass: two requests the schema accepts, and
\* requests it rejects (an empty object, an empty line1, a state code of three
\* characters, no package, a package without weight).
GoodAddress(line2) ==
    Address(Str(<<"1">>), line2, Str(<<"c">>), Str(<<"G", "A">>), Str(<<"3">>),
            Str(<<"U", "S">>))
NoAddress == Address(Absent, Absent, Absent, Absent, Absent, Absent)
GoodPackage == Package(Num(12), Num(3), Num(2), Num(1))
EmptyObject == RateRequest(NoAddress, NoAddress, NoArr)
ValidRateRequests ==
    {RateRequest(GoodAddress(Str(<<"2">>)), GoodAddress(Absent), Arr(<<GoodPackage>>)),
     RateRequest(GoodAddress(Str(<<>>)), GoodAddress(Absent),
                 Arr(<<GoodPackage, GoodPackage>>))}
InvalidRateRequests ==
    {EmptyObject,
     RateRequest([GoodAddress(Absent) EXCEPT !.line1 = Str(<<>>)], GoodAddress(Absent),
                 Arr(<<GoodPackage>>)),
     RateRequest(GoodAddress(Absent),
                 [GoodAddress(Absent) EXCEPT !.stateCode = Str(<<"G", "A", "X">>)],
                 Arr(<<GoodPackage>>)),
     RateRequest(GoodAddress(Absent), GoodAddress(Absent), Arr(<<>>)),
     RateRequest(GoodAddress(Absent), GoodAddress(Absent),
                 Arr(<<[GoodPackage EXCEPT !.weightLbs = Num(0)]>>))}
RateRequests == ValidRateRequests \cup InvalidRateRequests

\* The arguments the UpsMapper functions are called with: lists of up to
\* MaxShipments rated shipments with every combination of the optional
\* properties, and the requests the schema accepts, with up to MaxPackages
\* packages (and one of twelve), line2 absent, empty or given.
Shipments ==
    {RatedShipment(<<"0", "3">>, d, <<"1", "2">>, gDays, gDate, tDays, tDate) :
        d \in {Absent, Str(<<"G">>)},
        gDays \in {Absent, Str(<<"1">>)}, gDate \in {Absent, Str(<<"D">>)},
        tDays \in {Absent, Str(<<"2">>)}, tDate \in {Absent, Str(<<"E">>)}}
ShipmentLists == UNION {[1..k -> Shipments] : k \in 0..MaxShipments}
Line2s == {Absent, Str(<<>>), Str(<<"2">>)}
Packages == {GoodPackage, Package(Num(1), Num(10), Num(4), Num(5))}
PackageLists ==
    UNION {[1..k -> Packages] : k \in 1..MaxPackages} \cup {[i \in 1..12 |-> GoodPackage]}
Destination(line2) == [GoodAddress(line2) EXCEPT !.city = Str(<<"d">>)]
MapperRequests ==
    {RateRequest(GoodAddress(o), Destination(d), Arr(ps)) :
        o \in Line2s, d \in Line2s, ps \in PackageLists}

\* What the rating endpoint answers: the body k of attempt k is a rate response
\* that lists k rated shipments, the body -k one of another shape.
SampleShipments ==
    <<RatedShipment(<<"0", "3">>, Str(<<"G">>), <<"1", "2">>,
                    Absent, Absent, Absent, Absent),
      RatedShipment(<<"0", "1">>, Absent, <<"4", "5">>,
                    Str(<<"1">>), Str(<<"D">>), Str(<<"2">>), Absent)>>
RateResponseOf(data) ==
    [wellFormed |-> data > 0,
     RatedShipment |-> IF data > 0 THEN SubSeq(SampleShipments, 1, data) ELSE <<>>]
\* UpsRateResponseSchema.parse(data) does not throw.
UpsRateResponseSchemaOk(body) == body.wellFormed
RateTransportAnswers(k) ==
    TransportAnswers(k) \cup {TransportAnswer(TRUE, -k, NoFailure)}

\* The keys and the capability instances callers register; Map.get gives
\* undefined (NoOperation) for a key that is not in the map.
Keys == {"ups:rating", "fedex:rating", "usps:rating"}
Operations == {"UpsRatingOperation", "stubOperation"}
NoOperation == "undefined"

\* ------------------------------------------------------------ the frames
\* The frame of a call: request(), or accessToken() invoked on the provider itself.
\*   pc          where the async function is suspended
\*   direct      the call is accessToken() on the provider, not request()
\*   retrying    control is inside retryWithFreshToken()
\*   tok         the value its latest accessToken() resolved with
\*   resp        the token endpoint's answer on its way back
\*   sent        the bearer tokens of its transport attempts, in order
\*   sentAt      when the attempt in flight went out
\*   result      what request() or accessToken() settled with
\*   config      the envelope request() was called with
\*   wire        the requests of its transport attempts, in order
\*   op          the call is UpsRatingOperation.execute()
\*   input       the input of execute()
\*   invalid     the error of RateRequestSchema.safeParse, parseError: the error
\*               UpsRateResponseSchema.parse threw
\*   opResult    what execute() settled with
\* and its history:
\*   hit         its latest accessToken() was served from the cache
\*   afterClear  its latest accessToken() was the first one since a clearToken()
\*   stale       its latest accessToken() found a cached token that had expired,
\*               found: that token, foundExp: its expiresAt, calledAt: the
\*               instant of the call
\*   thrown      what the catch block of authenticate() caught
\*   outcomes    what its transport attempts settled with, in order
\*   accessCalls, acquired   accessToken() invocations, and those that resolved
\*   clears, authReqs        clearToken() invocations, POSTs to the token endpoint
IdleFrame ==
    [pc |-> "idle", direct |-> FALSE, retrying |-> FALSE, tok |-> Null,
     resp |-> NoAnswer, sent |-> <<>>, sentAt |-> 0, result |-> Unsettled,
     hit |-> FALSE, afterClear |-> FALSE, stale |-> FALSE, found |-> Null,
     foundExp |-> 0, calledAt |-> 0, thrown |-> NoFailure, outcomes |-> <<>>,
     accessCalls |-> 0, acquired |-> 0, clears |-> 0, authReqs |-> 0,
     config |-> PlainEnvelope, wire |-> <<>>, op |-> FALSE, input |-> EmptyObject,
     invalid |-> NoFailure, parseError |-> NoFailure, opResult |-> Unsettled]

\* No UpsMapper function is being called.
IdleMapper ==
    [pc |-> "idle", shipments |-> <<>>, quotes |-> <<>>, input |-> EmptyObject,
     body |-> Undefined]

Init ==
    /\ now = 0
    /\ cachedToken = Null
    /\ expiresAt = 0
    /\ cachedAt = 0
    /\ cachedTtl = 0
    /\ cleared = FALSE
    /\ issued = 0
    /\ req = [p \in Procs |-> IdleFrame]
    /\ operations = [k \in Keys |-> NoOperation]
    /\ calls = <<>>
    /\ mapper = IdleMapper

\* A resolved await resumes as a microtask: the event loop runs no I/O callback
\* and lets no time pass before the continuations that are ready have run.  A
\* continuation pending touches its own frame only, so letting it run before any
\* new call starts loses no behaviour either.
MicrotasksDone == \A p \in Procs : req[p].pc \notin {"tokenReady", "fetched", "done"}

\* accessToken() with a single-flight guard: a miss while an authentication is in
\* flight waits for that one and posts nothing.
AccessTokenSingleFlight(f, token, exp, wasCleared) ==
    LET expired == token # Null /\ now >= exp
        g == [f EXCEPT !.accessCalls = @ + 1, !.afterClear = wasCleared,
                       !.stale = expired,
                       !.found = IF expired THEN token ELSE Null,
                       !.foundExp = IF expired THEN exp ELSE 0,
                       !.calledAt = IF expired THEN now ELSE 0]
    IN  IF CacheHit(token, exp, now)
        THEN [g EXCEPT !.tok = token, !.hit = TRUE, !.acquired = @ + 1,
                       !.pc = "tokenReady"]
        ELSE IF \E q \in Procs : req[q].pc \in {"authenticating", "authResponse"}
             THEN [g EXCEPT !.hit = FALSE, !.pc = "authenticating"]
             ELSE [g EXCEPT !.hit = FALSE, !.authReqs = @ + 1, !.pc = "authenticating"]

\* UpsAuthClient.accessToken(), up to its first await, called in frame f while the
\* cache holds (token, exp): a hit resolves at once, a miss enters authenticate(),
\* which posts to the token endpoint.  wasCleared: no accessToken() since clearToken().
AccessToken(f, token, exp, wasCleared) ==
    LET expired == token # Null /\ now >= exp
        g == [f EXCEPT !.accessCalls = @ + 1, !.afterClear = wasCleared,
                       !.stale = expired,
                       !.found = IF expired THEN token ELSE Null,
                       !.foundExp = IF expired THEN exp ELSE 0,
                       !.calledAt = IF expired THEN now ELSE 0]
    IN  IF CacheHit(token, exp, now)
        THEN [g EXCEPT !.tok = token, !.hit = TRUE, !.acquired = @ + 1,
                       !.pc = "tokenReady"]
        ELSE [g EXCEPT !.hit = FALSE, !.authReqs = @ + 1, !.pc = "authenticating"]

\* request(config), line 28: a caller starts a call.
Request(p, config) ==
    /\ MicrotasksDone
    /\ req[p].pc = "idle"
    /\ req' = [req EXCEPT ![p] = AccessToken([IdleFrame EXCEPT !.config = config],
                                             cachedToken, expiresAt, cleared)]
    /\ cleared' = FALSE
    /\ UNCHANGED <<now, cachedToken, expiresAt, cachedAt, cachedTtl, issued>>
    /\ UNCHANGED <<registryVars, mapperVars>>

\* A caller invokes accessToken() on the provider itself.
DirectAccessToken(p) ==
    /\ MicrotasksDone
    /\ req[p].pc = "idle"
    /\ req' = [req EXCEPT ![p] = AccessToken([IdleFrame EXCEPT !.direct = TRUE],
                                             cachedToken, expiresAt, cleared)]
    /\ cleared' = FALSE
    /\ UNCHANGED <<now, cachedToken, expiresAt, cachedAt, cachedTtl, issued>>
    /\ UNCHANGED <<registryVars, mapperVars>>

\* clearToken() discarding the token only once it is no longer valid.
ClearTokenIfExpired ==
    /\ MicrotasksDone
    /\ IF CacheHit(cachedToken, expiresAt, now)
       THEN UNCHANGED <<cachedToken, expiresAt, cachedAt, cachedTtl>>
       ELSE /\ cachedToken' = Null
            /\ expiresAt' = 0
            /\ cachedAt' = 0
            /\ cachedTtl' = 0
    /\ cleared' = TRUE
    /\ UNCHANGED <<now, issued, req>>
    /\ UNCHANGED <<registryVars, mapperVars>>

\* UpsAuthClient.clearToken(), invoked on the provider itself.
ClearToken ==
    /\ MicrotasksDone
    /\ cachedToken' = Null
    /\ expiresAt' = 0
    /\ cachedAt' = 0
    /\ cachedTtl' = 0
    /\ cleared' = TRUE
    /\ UNCHANGED <<now, issued, req>>
    /\ UNCHANGED <<registryVars, mapperVars>>

\* The token endpoint issues a token for the POST of authenticate(), lines 62-71;
\* its answer is on its way back.
AuthRespond(p, e) ==
    /\ MicrotasksDone
    /\ req[p].pc = "authenticating"
    /\ issued < MaxTokens
    /\ issued' = issued + 1
    /\ req' = [req EXCEPT ![p].pc = "authResponse",
                          ![p].resp = IssuedAnswer(issued + 1, e, now)]
    /\ UNCHANGED <<now, cachedToken, expiresAt, cachedAt, cachedTtl, cleared>>
    /\ UNCHANGED <<registryVars, mapperVars>>

\* The token endpoint answers the POST of a retry with the token it issued to
\* this client before and still honours, for the seconds that token has left.
AuthReissue(p) ==
    /\ MicrotasksDone
    /\ req[p].pc = "authenticating"
    /\ Len(req[p].sent) >= 1
    /\ req[p].sent[1].exp - now >= MsPerSecond
    /\ req' = [req EXCEPT
                 ![p].pc = "authResponse",
                 ![p].resp = AuthAnswer(TRUE,
                                TokenBody(req[p].sent[1],
                                          Num((req[p].sent[1].exp - now) \div MsPerSecond),
                                          TRUE),
                                NoFailure)]
    /\ UNCHANGED <<now, cachedToken, expiresAt, cachedAt, cachedTtl, cleared, issued>>
    /\ UNCHANGED <<registryVars, mapperVars>>

\* A call settles: its promise resolves or rejects with `outcome`; the await of
\* fetchRates() (UpsRatingOperation.ts, line 39) takes it when request() was
\* called from there.
Settle(frames, p, outcome) ==
    req' = [frames EXCEPT ![p].pc = IF frames[p].op THEN "fetched" ELSE "done",
                          ![p].resp = NoAnswer, ![p].result = outcome]

\* authenticate() caching what a 2xx answer holds before it parses the body.
AuthenticateCachesUnparsed(p, a) ==
    /\ MicrotasksDone
    /\ \/ req[p].pc = "authResponse" /\ a = req[p].resp
       \/ req[p].pc = "authenticating" /\ a \in FailingAuthAnswers
    /\ IF a.ok
       THEN /\ cachedToken' = a.data.access_token
            /\ expiresAt' = ExpiresAtFor(now, a.data.expires_in.v)
            /\ cachedAt' = now
            /\ cachedTtl' = a.data.expires_in.v
       ELSE UNCHANGED <<cachedToken, expiresAt, cachedAt, cachedTtl>>
    /\ IF a.ok /\ TokenResponseSchemaOk(a.data)
       THEN req' = [req EXCEPT ![p].pc = "tokenReady", ![p].resp = NoAnswer,
                               ![p].tok = a.data.access_token,
                               ![p].acquired = @ + 1]
       ELSE LET error == IF a.ok THEN ZodError ELSE a.error
            IN  Settle([req EXCEPT ![p].thrown = error], p,
                       AuthToStructuredError(error))
    /\ UNCHANGED <<now, cleared, issued>>
    /\ UNCHANGED <<registryVars, mapperVars>>

\* authenticate() swallowing its failure: accessToken() resolves without a token
\* and the caller goes on.
AuthenticateSwallowsFailure(p, a) ==
    /\ MicrotasksDone
    /\ \/ req[p].pc = "authResponse" /\ a = req[p].resp
       \/ req[p].pc = "authenticating" /\ a \in FailingAuthAnswers
    /\ IF a.ok /\ TokenResponseSchemaOk(a.data)
       THEN /\ cachedToken' = a.data.access_token
            /\ expiresAt' = ExpiresAtFor(now, a.data.expires_in.v)
            /\ cachedAt' = now
            /\ cachedTtl' = a.data.expires_in.v
            /\ req' = [req EXCEPT ![p].pc = "tokenReady", ![p].resp = NoAnswer,
                                  ![p].tok = a.data.access_token,
                                  ![p].acquired = @ + 1]
       ELSE /\ req' = [req EXCEPT ![p].pc = "tokenReady", ![p].resp = NoAnswer,
                                  ![p].thrown = IF a.ok THEN ZodError ELSE a.error,
                                  ![p].tok = Null]
            /\ UNCHANGED <<cachedToken, expiresAt, cachedAt, cachedTtl>>
    /\ UNCHANGED <<now, cleared, issued>>
    /\ UNCHANGED <<registryVars, mapperVars>>

\* authenticate(), lines 73-80, on the answer a of the POST: the token that was
\* issued, or one of the failing answers; a rejection leaves accessToken(), and
\* request() at line 28 or retryWithFreshToken() at line 41.
Authenticate(p, a) ==
    /\ MicrotasksDone
    /\ \/ req[p].pc = "authResponse" /\ a = req[p].resp
       \/ req[p].pc = "authenticating" /\ a \in FailingAuthAnswers
    /\ IF a.ok /\ TokenResponseSchemaOk(a.data)
       THEN /\ cachedToken' = a.data.access_token
            /\ expiresAt' = ExpiresAtFor(now, a.data.expires_in.v)
            /\ cachedAt' = now
            /\ cachedTtl' = a.data.expires_in.v
            /\ req' = [req EXCEPT ![p].pc = "tokenReady", ![p].resp = NoAnswer,
                                  ![p].tok = a.data.access_token,
                                  ![p].acquired = @ + 1]
       ELSE /\ LET error == IF a.ok THEN ZodError ELSE a.error
               IN  Settle([req EXCEPT ![p].thrown = error], p,
                          AuthToStructuredError(error))
            /\ UNCHANGED <<cachedToken, expiresAt, cachedAt, cachedTtl>>
    /\ UNCHANGED <<now, cleared, issued>>
    /\ UNCHANGED <<registryVars, mapperVars>>

\* A direct accessToken() resolves with the token.
AccessTokenReturn(p) ==
    /\ req[p].pc = "tokenReady"
    /\ req[p].direct
    /\ Settle(req, p, Success(0))
    /\ UNCHANGED <<now, cachedToken, expiresAt, cachedAt, cachedTtl, cleared, issued>>
    /\ UNCHANGED <<registryVars, mapperVars>>

\* request() not awaiting accessToken(): the attempt may go out while the
\* authentication is still in flight.
ExecuteWithoutAwait(p) ==
    /\ req[p].pc \in {"tokenReady", "authenticating"}
    /\ ~req[p].direct
    /\ req' = [req EXCEPT ![p].pc = "inFlight", ![p].sentAt = now,
                          ![p].sent = Append(@, req[p].tok),
                          ![p].wire = Append(@, WithToken(req[p].config, req[p].tok))]
    /\ UNCHANGED <<now, cachedToken, expiresAt, cachedAt, cachedTtl, cleared, issued>>
    /\ UNCHANGED <<registryVars, mapperVars>>

\* retryWithFreshToken() passing the token of the first attempt again.
ExecuteWithStaleToken(p) ==
    /\ req[p].pc = "tokenReady"
    /\ ~req[p].direct
    /\ LET token == IF req[p].retrying THEN req[p].sent[1] ELSE req[p].tok IN
       req' = [req EXCEPT ![p].pc = "inFlight", ![p].sentAt = now,
                          ![p].sent = Append(@, token),
                          ![p].wire = Append(@, WithToken(req[p].config, token))]
    /\ UNCHANGED <<now, cachedToken, expiresAt, cachedAt, cachedTtl, cleared, issued>>
    /\ UNCHANGED <<registryVars, mapperVars>>

\* An executor that keeps the token last sent in a field of its own and sends
\* that one while another call's attempt is under way.
ExecuteWithHeldToken(p) ==
    /\ req[p].pc = "tokenReady"
    /\ ~req[p].direct
    /\ LET holders == {q \in Procs \ {p} : req[q].pc = "inFlight"}
           token == IF holders = {} THEN req[p].tok
                    ELSE LET q == CHOOSE h \in holders : TRUE
                         IN  req[q].sent[Len(req[q].sent)]
       IN  req' = [req EXCEPT ![p].pc = "inFlight", ![p].sentAt = now,
                              ![p].sent = Append(@, token),
                              ![p].wire = Append(@, WithToken(req[p].config, token))]
    /\ UNCHANGED <<now, cachedToken, expiresAt, cachedAt, cachedTtl, cleared, issued>>
    /\ UNCHANGED <<registryVars, mapperVars>>

\* executeWithToken(), lines 62-65: the attempt goes out with the token awaited.
ExecuteWithToken(p) ==
    /\ req[p].pc = "tokenReady"
    /\ ~req[p].direct
    /\ req' = [req EXCEPT ![p].pc = "inFlight", ![p].sentAt = now,
                          ![p].sent = Append(@, req[p].tok),
                          ![p].wire = Append(@, WithToken(req[p].config, req[p].tok))]
    /\ UNCHANGED <<now, cachedToken, expiresAt, cachedAt, cachedTtl, cleared, issued>>
    /\ UNCHANGED <<registryVars, mapperVars>>

\* retryWithFreshToken() without its clearToken().
RetryWithoutClear(frames, p) ==
    /\ req' = [frames EXCEPT ![p] =
                 AccessToken([@ EXCEPT !.retrying = TRUE], cachedToken, expiresAt, cleared)]
    /\ cleared' = FALSE
    /\ UNCHANGED <<cachedToken, expiresAt, cachedAt, cachedTtl>>

\* retryWithFreshToken() with the cache check of accessToken() seeing the cache
\* as it was before clearToken().
RetryChecksCacheFirst(frames, p) ==
    /\ cachedToken' = Null
    /\ expiresAt' = 0
    /\ cachedAt' = 0
    /\ cachedTtl' = 0
    /\ cleared' = FALSE
    /\ req' = [frames EXCEPT ![p] =
                 AccessToken([@ EXCEPT !.retrying = TRUE, !.clears = @ + 1],
                             cachedToken, expiresAt, TRUE)]

\* retryWithFreshToken(), lines 40-41: clearToken(), then accessToken() up to its
\* first await, in one synchronous block.
RetryWithFreshToken(frames, p) ==
    /\ cachedToken' = Null
    /\ expiresAt' = 0
    /\ cachedAt' = 0
    /\ cachedTtl' = 0
    /\ cleared' = FALSE
    /\ req' = [frames EXCEPT ![p] =
                 AccessToken([@ EXCEPT !.retrying = TRUE, !.clears = @ + 1],
                             Null, 0, TRUE)]

\* request() swallowing a first attempt that ended without a response: its
\* promise never settles.
RequestSettleNeverSettles(p, a) ==
    /\ MicrotasksDone
    /\ req[p].pc = "inFlight"
    /\ ~req[p].retrying
    /\ a \in RateTransportAnswers(Len(req[p].sent))
    /\ LET frames == [req EXCEPT ![p].outcomes = Append(@, a)] IN
       IF a.ok
       THEN /\ Settle(frames, p, Success(a.data))
            /\ UNCHANGED <<cachedToken, expiresAt, cachedAt, cachedTtl, cleared>>
       ELSE IF Is401(a.error)
            THEN RetryWithFreshToken(frames, p)
            ELSE /\ IF a.error.response
                    THEN Settle(frames, p, HttpToStructuredError(a.error))
                    ELSE req' = [frames EXCEPT ![p].pc = "pending"]
                 /\ UNCHANGED <<cachedToken, expiresAt, cachedAt, cachedTtl, cleared>>
    /\ UNCHANGED <<now, issued>>
    /\ UNCHANGED <<registryVars, mapperVars>>

\* request() reporting a 401 of the first attempt at once, without a retry.
RequestSettleNoRetry(p, a) ==
    /\ MicrotasksDone
    /\ req[p].pc = "inFlight"
    /\ ~req[p].retrying
    /\ a \in RateTransportAnswers(Len(req[p].sent))
    /\ Settle([req EXCEPT ![p].outcomes = Append(@, a)], p,
              IF a.ok THEN Success(a.data)
              ELSE IF Is401(a.error)
                   THEN AuthenticationError(<<"Authentication failed", 0>>, a.error)
                   ELSE HttpToStructuredError(a.error))
    /\ UNCHANGED <<now, cachedToken, expiresAt, cachedAt, cachedTtl, cleared, issued>>
    /\ UNCHANGED <<registryVars, mapperVars>>

\* request(), lines 29-36: the first attempt settles.
RequestSettle(p, a) ==
    /\ MicrotasksDone
    /\ req[p].pc = "inFlight"
    /\ ~req[p].retrying
    /\ a \in RateTransportAnswers(Len(req[p].sent))
    /\ LET frames == [req EXCEPT ![p].outcomes = Append(@, a)] IN
       IF a.ok
       THEN /\ Settle(frames, p, Success(a.data))
            /\ UNCHANGED <<cachedToken, expiresAt, cachedAt, cachedTtl, cleared>>
       ELSE IF Is401(a.error)
            THEN RetryWithFreshToken(frames, p)
            ELSE /\ Settle(frames, p, HttpToStructuredError(a.error))
                 /\ UNCHANGED <<cachedToken, expiresAt, cachedAt, cachedTtl, cleared>>
    /\ UNCHANGED <<now, issued>>
    /\ UNCHANGED <<registryVars, mapperVars>>

\* retryWithFreshToken() retrying again on a 401, as request() does.
RetrySettleRetriesAgain(p, a) ==
    /\ MicrotasksDone
    /\ req[p].pc = "inFlight"
    /\ req[p].retrying
    /\ a \in RateTransportAnswers(Len(req[p].sent))
    /\ LET frames == [req EXCEPT ![p].outcomes = Append(@, a)] IN
       IF ~a.ok /\ Is401(a.error)
       THEN RetryWithFreshToken(frames, p)
       ELSE /\ Settle(frames, p, IF a.ok THEN Success(a.data)
                                 ELSE HttpToStructuredError(a.error))
            /\ UNCHANGED <<cachedToken, expiresAt, cachedAt, cachedTtl, cleared>>
    /\ UNCHANGED <<now, issued>>
    /\ UNCHANGED <<registryVars, mapperVars>>

\* retryWithFreshToken(), lines 42-55: the retried attempt settles.
RetrySettle(p, a) ==
    /\ MicrotasksDone
    /\ req[p].pc = "inFlight"
    /\ req[p].retrying
    /\ a \in RateTransportAnswers(Len(req[p].sent))
    /\ Settle([req EXCEPT ![p].outcomes = Append(@, a)], p,
              IF a.ok THEN Success(a.data)
              ELSE IF Is401(a.error)
                   THEN AuthenticationError(
                            <<"Authentication failed after token refresh", 0>>, a.error)
                   ELSE HttpToStructuredError(a.error))
    /\ UNCHANGED <<now, cachedToken, expiresAt, cachedAt, cachedTtl, cleared, issued>>
    /\ UNCHANGED <<registryVars, mapperVars>>

\* execute() mapping and sending its input without validating it.
ExecuteUnvalidated(p, input) ==
    /\ MicrotasksDone
    /\ req[p].pc = "idle"
    /\ req' = [req EXCEPT ![p] =
                 AccessToken([IdleFrame EXCEPT
                                 !.op = TRUE, !.input = input,
                                 !.config = Envelope("POST",
                                     <<"/api/rating/v2409/", "Shop">>,
                                     <<ToUpsRequest(input)>>, NoHeaders)],
                             cachedToken, expiresAt, cleared)]
    /\ cleared' = FALSE
    /\ UNCHANGED <<now, cachedToken, expiresAt, cachedAt, cachedTtl, issued>>
    /\ UNCHANGED <<registryVars, mapperVars>>

\* UpsRatingOperation.execute(input), lines 27-33: input the schema rejects
\* throws at once; otherwise the mapped body goes to request() in fetchRates().
Execute(p, input) ==
    /\ MicrotasksDone
    /\ req[p].pc = "idle"
    /\ IF ~RateRequestSchemaOk(input)
       THEN /\ req' = [req EXCEPT ![p] =
                        [IdleFrame EXCEPT !.op = TRUE, !.input = input, !.pc = "done",
                                          !.invalid = ZodErrorAt(-1),
                                          !.opResult = ValidationError(
                                              <<"parsed.error.message", 0>>, NoFailure)]]
            /\ UNCHANGED cleared
       ELSE /\ req' = [req EXCEPT ![p] =
                        AccessToken([IdleFrame EXCEPT
                                        !.op = TRUE, !.input = input,
                                        !.config = Envelope("POST",
                                            <<"/api/rating/v2409/", "Shop">>,
                                            <<ToUpsRequest(input)>>, NoHeaders)],
                                    cachedToken, expiresAt, cleared)]
            /\ cleared' = FALSE
    /\ UNCHANGED <<now, cachedToken, expiresAt, cachedAt, cachedTtl, issued>>
    /\ UNCHANGED <<registryVars, mapperVars>>

\* fetchRates() letting the error of UpsRateResponseSchema.parse() escape as it is.
FetchRatesUnwrapped(p) ==
    /\ req[p].pc = "fetched"
    /\ LET r == req[p].result
           body == RateResponseOf(r.data)
           zod == ZodErrorAt(Len(req[p].sent))
       IN  req' = [req EXCEPT
                ![p].pc = "done",
                ![p].parseError =
                    IF r.ok /\ ~UpsRateResponseSchemaOk(body) THEN zod ELSE NoFailure,
                ![p].opResult =
                    IF r.ok
                    THEN IF UpsRateResponseSchemaOk(body)
                         THEN Success(FromUpsResponse(body.RatedShipment))
                         ELSE ValidationError(<<"UPS rating response", 0>>, CauseOf(zod))
                    ELSE IF IsCarrierApiError(r)
                         THEN r
                         ELSE CarrierApiError(<<"UPS rating request failed", 0>>, 0,
                                              "undefined", r)]
    /\ UNCHANGED <<now, cachedToken, expiresAt, cachedAt, cachedTtl, cleared, issued>>
    /\ UNCHANGED <<registryVars, mapperVars>>

\* fetchRates(), lines 39-50, from the point request() settles, and execute(),
\* line 34: the body is parsed and mapped; an error that is no CarrierApiError
\* is wrapped into one with status 0.
FetchRates(p) ==
    /\ req[p].pc = "fetched"
    /\ LET r == req[p].result
           body == RateResponseOf(r.data)
           zod == ZodErrorAt(Len(req[p].sent))
       IN  req' = [req EXCEPT
                ![p].pc = "done",
                ![p].parseError =
                    IF r.ok /\ ~UpsRateResponseSchemaOk(body) THEN zod ELSE NoFailure,
                ![p].opResult =
                    IF r.ok
                    THEN IF UpsRateResponseSchemaOk(body)
                         THEN Success(FromUpsResponse(body.RatedShipment))
                         ELSE CarrierApiError(<<"UPS rating request failed", 0>>, 0,
                                              "undefined", CauseOf(zod))
                    ELSE IF IsCarrierApiError(r)
                         THEN r
                         ELSE CarrierApiError(<<"UPS rating request failed", 0>>, 0,
                                              "undefined", r)]
    /\ UNCHANGED <<now, cachedToken, expiresAt, cachedAt, cachedTtl, cleared, issued>>
    /\ UNCHANGED <<registryVars, mapperVars>>

\* The caller's continuation takes the outcome; the frame is gone.
Return(p) ==
    /\ req[p].pc = "done"
    /\ req' = [req EXCEPT ![p] = IdleFrame]
    /\ UNCHANGED <<now, cachedToken, expiresAt, cachedAt, cachedTtl, cleared, issued>>
    /\ UNCHANGED <<registryVars, mapperVars>>

\* Time passes.  The transport gives up an attempt after its timeout
\* (HttpClient.ts, line 23).
Tick ==
    /\ MicrotasksDone
    /\ now + TickMs <= MaxNow
    /\ \A p \in Procs :
         req[p].pc = "inFlight" => now + TickMs - req[p].sentAt <= DefaultTimeoutMs
    /\ now' = now + TickMs
    /\ UNCHANGED <<cachedToken, expiresAt, cachedAt, cachedTtl, cleared, issued, req>>
    /\ UNCHANGED <<registryVars, mapperVars>>

\* OperationRegistry.register keeping the operation a key already has.
RegisterKeepsFirst(key, operation) ==
    /\ Len(calls) < MaxCalls
    /\ operations' = [operations EXCEPT ![key] =
                         IF @ = NoOperation THEN operation ELSE @]
    /\ calls' = Append(calls, [call |-> "register", key |-> key,
                               operation |-> operation, result |-> Unsettled])
    /\ UNCHANGED <<transportVars, mapperVars>>

\* OperationRegistry.register(key, operation), line 8: Map.set.
Register(key, operation) ==
    /\ Len(calls) < MaxCalls
    /\ operations' = [operations EXCEPT ![key] = operation]
    /\ calls' = Append(calls, [call |-> "register", key |-> key,
                               operation |-> operation, result |-> Unsettled])
    /\ UNCHANGED <<transportVars, mapperVars>>

\* OperationRegistry.resolve(key), lines 12-16: the operation the map holds, or
\* OperationNotFoundError thrown.
Resolve(key) ==
    /\ Len(calls) < MaxCalls
    /\ LET operation == operations[key] IN
       calls' = Append(calls,
                       [call |-> "resolve", key |-> key, operation |-> operation,
                        result |-> IF operation = NoOperation
                                   THEN OperationNotFoundError(key)
                                   ELSE Unsettled])
    /\ UNCHANGED operations
    /\ UNCHANGED <<transportVars, mapperVars>>

\* Callers overlap on one provider.
Next ==
    \/ \E p \in Procs : Request(p, PlainEnvelope)
    \/ \E p \in Procs : DirectAccessToken(p)
    \/ ClearToken
    \/ \E p \in Procs : \E e \in ExpiresIns : AuthRespond(p, e)
    \/ \E p \in Procs : \E a \in CommonFailingAuthAnswers \cup {req[p].resp} :
         Authenticate(p, a)
    \/ \E p \in Procs : AccessTokenReturn(p)
    \/ \E p \in Procs : ExecuteWithToken(p)
    \/ \E p \in Procs : \E a \in CommonTransportAnswers(Len(req[p].sent)) :
         RequestSettle(p, a)
    \/ \E p \in Procs : \E a \in CommonTransportAnswers(Len(req[p].sent)) :
         RetrySettle(p, a)
    \/ \E p \in Procs : Return(p)
    \/ Tick

Spec == Init /\ [][Next]_vars

\* One caller at a time, with every answer the token endpoint and the carrier
\* can give.
NextSeq ==
    \/ \E config \in Envelopes : Request(1, config)
    \/ DirectAccessToken(1)
    \/ ClearToken
    \/ \E e \in ExpiresIns : AuthRespond(1, e)
    \/ \E a \in FailingAuthAnswers \cup {req[1].resp} : Authenticate(1, a)
    \/ AccessTokenReturn(1)
    \/ ExecuteWithToken(1)
    \/ \E a \in TransportAnswers(Len(req[1].sent)) : RequestSettle(1, a)
    \/ \E a \in TransportAnswers(Len(req[1].sent)) : RetrySettle(1, a)
    \/ Return(1)
    \/ Tick

SpecSeq == Init /\ [][NextSeq]_vars

\* A UpsMapper function is about to be called with one of the arguments above.
InitMapper ==
    /\ now = 0
    /\ cachedToken = Null
    /\ expiresAt = 0
    /\ cachedAt = 0
    /\ cachedTtl = 0
    /\ cleared = FALSE
    /\ issued = 0
    /\ req = [p \in Procs |-> IdleFrame]
    /\ operations = [k \in Keys |-> NoOperation]
    /\ calls = <<>>
    /\ \/ \E shipments \in ShipmentLists :
             mapper = [IdleMapper EXCEPT !.pc = "start", !.shipments = shipments]
       \/ \E input \in MapperRequests :
             mapper = [IdleMapper EXCEPT !.pc = "start", !.input = input]

\* fromUpsResponse(shipments), as execute() calls it at line 34.
CallFromUpsResponse ==
    /\ mapper.pc = "start"
    /\ mapper' = [mapper EXCEPT !.pc = "responseMapped",
                                !.quotes = FromUpsResponse(mapper.shipments)]
    /\ UNCHANGED <<transportVars, registryVars>>

\* toUpsRequest(parsed.data), as execute() calls it at line 32 on input the
\* schema accepted.
CallToUpsRequest ==
    /\ mapper.pc = "start"
    /\ RateRequestSchemaOk(mapper.input)
    /\ mapper' = [mapper EXCEPT !.pc = "requestMapped",
                                !.body = ToUpsRequest(mapper.input)]
    /\ UNCHANGED <<transportVars, registryVars>>

NextMapper ==
    \/ CallFromUpsResponse
    \/ CallToUpsRequest

SpecMapper == InitMapper /\ [][NextMapper]_vars

\* Overlapping request() calls, each caller starting a new call when its last
\* one is over, with the scheduling of the event loop: what a call is waiting
\* for (the answer of the token endpoint, the settling of the transport call,
\* its own continuation) happens in the end.  A callback that is ready runs once
\* the microtasks of the other calls have run, however often they come back,
\* hence strong fairness.
Step(p) ==
    \/ \E e \in ExpiresIns : AuthRespond(p, e)
    \/ \E a \in CommonFailingAuthAnswers \cup {req[p].resp} : Authenticate(p, a)
    \/ ExecuteWithToken(p)
    \/ \E a \in CommonTransportAnswers(Len(req[p].sent)) : RequestSettle(p, a)
    \/ \E a \in CommonTransportAnswers(Len(req[p].sent)) : RetrySettle(p, a)
    \/ Return(p)

NextLive ==
    \/ \E p \in Procs : Request(p, PlainEnvelope)
    \/ \E p \in Procs : Step(p)

SpecLive == Init /\ [][NextLive]_vars /\ \A p \in Procs : SF_vars(Step(p))

\* One caller at a time, and a token endpoint that may hand out again a token it
\* still honours.
NextReissue ==
    \/ NextSeq
    \/ AuthReissue(1)

SpecReissue == Init /\ [][NextReissue]_vars

\* One caller of the rating capability at a time.
NextRate ==
    \/ \E input \in RateRequests : Execute(1, input)
    \/ FetchRates(1)
    \/ DirectAccessToken(1)
    \/ ClearToken
    \/ \E e \in ExpiresIns : AuthRespond(1, e)
    \/ \E a \in FailingAuthAnswers \cup {req[1].resp} : Authenticate(1, a)
    \/ AccessTokenReturn(1)
    \/ ExecuteWithToken(1)
    \/ \E a \in RateTransportAnswers(Len(req[1].sent)) : RequestSettle(1, a)
    \/ \E a \in RateTransportAnswers(Len(req[1].sent)) : RetrySettle(1, a)
    \/ Return(1)
    \/ Tick

SpecRate == Init /\ [][NextRate]_vars

\* The registry and its callers.
NextRegistry ==
    \/ \E key \in Keys : \E operation \in Operations : Register(key, operation)
    \/ \E key \in Keys : Resolve(key)

SpecRegistry == Init /\ [][NextRegistry]_vars

\* ================================================================ claims
KindAuthentication == "AUTHENTICATION_ERROR"
KindRateLimit == "RATE_LIMIT_ERROR"
KindCarrierApi == "CARRIER_API_ERROR"

\* A transport attempt that failed with a response of status s.
FailedWith(a, s) == ~a.ok /\ a.error.axios /\ a.error.response /\ a.error.status = s
LastOutcome(f) == f.outcomes[Len(f.outcomes)]
IsRequest(f) == f.pc # "idle" /\ ~f.direct

\* ---------------------------------------------------------------- C1
BothAttempts401(f) ==
    /\ Len(f.outcomes) = 2
    /\ FailedWith(f.outcomes[1], 401)
    /\ FailedWith(f.outcomes[2], 401)

\* C1 (bounded retry): a request() call makes at most two transport attempts and
\* at most two accessToken() calls; when the first and the retried attempt both
\* fail with status 401 the call is over, it failed with kind Authentication, and
\* the error's cause is the second failure.
C1_BoundedRetry ==
    \A p \in Procs :
        LET f == req[p] IN
        /\ Len(f.sent) <= 2
        /\ f.accessCalls <= 2
        /\ Len(f.outcomes) = 2 => f.pc = "done"
        /\ BothAttempts401(f) =>
             /\ ~f.result.ok
             /\ f.result.code = KindAuthentication
             /\ f.result.cause = f.outcomes[2].error
             /\ Len(f.sent) = 2
             /\ f.accessCalls = 2

C1_Witness == \E p \in Procs : req[p].pc = "done" /\ BothAttempts401(req[p])

\* ---------------------------------------------------------------- C2
FirstAttempt401(f) == Len(f.outcomes) >= 1 /\ FailedWith(f.outcomes[1], 401)

\* C2 as claimed: a call whose first attempt failed with 401 has, when it is over,
\* cleared the token once, called accessToken() twice and made two transport
\* attempts, and returns the retried attempt's body if that attempt succeeded.
C2_AlwaysRetries ==
    \A p \in Procs :
        LET f == req[p] IN
        f.pc = "done" /\ FirstAttempt401(f) =>
            /\ f.clears = 1
            /\ f.accessCalls = 2
            /\ Len(f.sent) = 2
            /\ f.outcomes[2].ok => f.result = Success(f.outcomes[2].data)

\* C2, amended: after a first attempt that failed with 401 the call has cleared
\* the token once and called accessToken() twice; it makes exactly one further
\* transport attempt if that second accessToken() resolves, and none if it rejects
\* (the call then fails with that rejection); a retried attempt that succeeds
\* gives the call its body.
C2_SingleRetry ==
    \A p \in Procs :
        LET f == req[p] IN
        FirstAttempt401(f) =>
            /\ f.clears = 1
            /\ f.accessCalls = 2
            /\ Len(f.sent) <= f.acquired
            /\ f.pc = "done" =>
                 /\ Len(f.sent) = f.acquired
                 /\ f.acquired = 1 => ~f.result.ok /\ f.thrown # NoFailure
                 /\ f.acquired = 2 /\ f.outcomes[2].ok =>
                      f.result = Success(f.outcomes[2].data)

C2_Witness ==
    \E p \in Procs :
        /\ req[p].pc = "done"
        /\ FirstAttempt401(req[p])
        /\ req[p].clears = 1
        /\ Len(req[p].sent) = 2
        /\ req[p].result = Success(2)

\* ---------------------------------------------------------------- C3
\* C3 (explicit invalidation): the first accessToken() invoked after a
\* clearToken() is never served from the cache.
C3_ExplicitInvalidation ==
    \A p \in Procs : req[p].afterClear => ~req[p].hit

\* ---------------------------------------------------------------- C4
\* C4 (cache hit): an accessToken() invoked while a token is cached and
\* now < expiresAt resolves with the cached value, posts nothing to the token
\* endpoint and leaves cachedToken and expiresAt as they were.
C4_CacheHit ==
    [][\A p \in Procs :
          ( /\ req'[p].accessCalls = req[p].accessCalls + 1
            /\ req'[p].clears = req[p].clears
            /\ cachedToken # Null
            /\ now < expiresAt )
          => /\ req'[p].pc = "tokenReady"
             /\ req'[p].tok = cachedToken
             /\ req'[p].authReqs = req[p].authReqs
             /\ issued' = issued
             /\ cachedToken' = cachedToken
             /\ expiresAt' = expiresAt]_vars

C4_Witness ==
    \E p \in Procs :
        /\ req[p].pc = "tokenReady"
        /\ req[p].hit
        /\ req[p].authReqs = 0
        /\ req[p].tok = cachedToken
        /\ now > cachedAt

\* ---------------------------------------------------------------- C5
\* C5 (expiry refresh): a token whose response was processed at instant t with
\* expires_in = e is served from the cache only at instants before
\* t + (e - 60) s; an accessToken() that finds it at or after that instant posts
\* once to the token endpoint and, when that succeeds, resolves with the newly
\* issued token, which is then the cached one.
C5_ExpiryRefresh ==
    \A p \in Procs :
        LET f == req[p] IN
        /\ f.pc = "tokenReady" /\ f.hit =>
             /\ f.tok = cachedToken
             /\ now < cachedAt + (cachedTtl - 60) * 1000
        /\ f.stale => ~f.hit /\ f.authReqs = 1
        /\ f.stale /\ f.pc = "tokenReady" =>
             /\ f.acquired = 1
             /\ f.tok # f.found
             /\ f.tok = cachedToken
             /\ cachedAt = now

C5_Witness ==
    \E p \in Procs :
        /\ req[p].stale
        /\ req[p].calledAt = req[p].foundExp
        /\ req[p].pc = "tokenReady"
        /\ req[p].tok.id > req[p].found.id

\* ---------------------------------------------------------------- C6
\* C6 (no token expires mid-request): while a transport attempt is in flight the
\* carrier still honours the bearer token it carries.
C6_NoExpiryMidRequest ==
    \A p \in Procs :
        req[p].pc = "inFlight" => now <= req[p].sent[Len(req[p].sent)].exp

\* ---------------------------------------------------------------- C7
\* C7: when accessToken() resolves, its value is the cached token and
\* now < expiresAt.
C7_ReturnedTokenValid ==
    \A p \in Procs :
        req[p].pc = "tokenReady" => req[p].tok = cachedToken /\ now < expiresAt

\* ---------------------------------------------------------------- C8
\* The call ended in the classification of a transport failure: of a first
\* attempt, or of a retried attempt, that did not fail with status 401.
Classified(f) ==
    /\ IsRequest(f)
    /\ f.pc = "done"
    /\ Len(f.outcomes) = (IF f.retrying THEN 2 ELSE 1)
    /\ ~LastOutcome(f).ok
    /\ ~FailedWith(LastOutcome(f), 401)

\* C8 (executor status mapping): status 429 gives kind RateLimit, any other
\* status s kind CarrierApi with httpStatus s, a transport failure without a
\* response kind CarrierApi with httpStatus 0, and an exception that is no
\* transport failure kind CarrierApi with httpStatus 0.
C8_StatusMapping ==
    \A p \in Procs :
        Classified(req[p]) =>
            LET e == LastOutcome(req[p]).error
                r == req[p].result
            IN  /\ ~r.ok
                /\ e.axios /\ e.response /\ e.status = 429 => r.code = KindRateLimit
                /\ e.axios /\ e.response /\ e.status # 429 =>
                     r.code = KindCarrierApi /\ r.httpStatus = e.status
                /\ e.axios /\ ~e.response =>
                     r.code = KindCarrierApi /\ r.httpStatus = 0
                /\ ~e.axios => r.code = KindCarrierApi /\ r.httpStatus = 0

C8_Witness ==
    \E p \in Procs :
        /\ Classified(req[p])
        /\ req[p].retrying
        /\ FailedWith(LastOutcome(req[p]), 429)
        /\ req[p].result.code = KindRateLimit

\* ---------------------------------------------------------------- C9
\* C9 (token-endpoint failure mapping): a failed authentication fails
\* accessToken() with kind CarrierApi and status 0 when the failure carries no
\* response, kind Authentication for status 401 or 403, kind RateLimit for 429,
\* and otherwise kind CarrierApi with that status and the first carrier error
\* entry's code; the message is that entry's message when there is one, else the
\* generic one with the status.
C9_AuthFailureMapping ==
    \A p \in Procs :
        req[p].pc = "done" /\ req[p].thrown # NoFailure =>
            LET e == req[p].thrown
                r == req[p].result
                entries == IF e.data.wellFormed THEN e.data.errors ELSE <<>>
            IN  /\ ~r.ok
                /\ ~e.response => r.code = KindCarrierApi /\ r.httpStatus = 0
                /\ e.response /\ e.status \in {401, 403} => r.code = KindAuthentication
                /\ e.response /\ e.status = 429 => r.code = KindRateLimit
                /\ e.response /\ e.status \notin {401, 403, 429} =>
                     /\ r.code = KindCarrierApi
                     /\ r.httpStatus = e.status
                     /\ r.carrierCode = (IF entries = <<>> THEN "undefined"
                                         ELSE entries[1].code)
                /\ e.response =>
                     r.message = (IF entries = <<>>
                                  THEN <<"UPS OAuth request failed (HTTP status)", e.status>>
                                  ELSE entries[1].message)

C9_Witness ==
    \E p \in Procs :
        /\ req[p].pc = "done"
        /\ req[p].thrown = HttpFailure(400, [wellFormed |-> TRUE, errors |-> <<CarrierError>>], 0)
        /\ req[p].result.httpStatus = 400
        /\ req[p].result.carrierCode = "10400"
        /\ req[p].result.message = <<"Invalid grant_type", 0>>

\* ---------------------------------------------------------------- C10
\* C10 (closed taxonomy): a call that fails, request() or accessToken(), fails with
\* an error of kind Authentication, RateLimit or CarrierApi.
C10_ClosedTaxonomy ==
    \A p \in Procs :
        req[p].pc = "done" /\ ~req[p].result.ok =>
            req[p].result.code \in {KindAuthentication, KindRateLimit, KindCarrierApi}

C10_Witness ==
    \E p \in Procs :
        /\ req[p].pc = "done"
        /\ req[p].retrying
        /\ req[p].thrown = ZodError
        /\ req[p].result.code = KindCarrierApi

\* ---------------------------------------------------------------- C11
\* The call failed with kind Authentication.
FailedAuthentication(f) ==
    IsRequest(f) /\ f.pc = "done" /\ ~f.result.ok /\ f.result.code = KindAuthentication

\* The token endpoint rejected the call's latest accessToken() with 401 or 403.
TokenEndpointRejected(f) ==
    f.thrown.axios /\ f.thrown.response /\ f.thrown.status \in {401, 403}

\* C11 as claimed: a request() call that fails with kind Authentication has made
\* two transport attempts, and both were answered with status 401.
C11_OnlyAfterRetry ==
    \A p \in Procs : FailedAuthentication(req[p]) => BothAttempts401(req[p])

\* C11, amended: a request() call that fails with kind Authentication has either
\* made two transport attempts that were both answered with status 401, or had
\* an accessToken() call (the first one, or the one of the retry) rejected by the
\* token endpoint with status 401 or 403, the error being that rejection; a 401
\* of the first attempt followed by a retried attempt that ended otherwise never
\* gives kind Authentication.
C11_AuthenticationOrigin ==
    \A p \in Procs :
        LET f == req[p] IN
        /\ FailedAuthentication(f) =>
             \/ BothAttempts401(f)
             \/ /\ TokenEndpointRejected(f)
                /\ f.result = AuthToStructuredError(f.thrown)
                /\ Len(f.sent) = f.acquired
                /\ Len(f.sent) < 2
        /\ ( /\ IsRequest(f) /\ f.pc = "done"
             /\ FirstAttempt401(f)
             /\ Len(f.outcomes) = 2
             /\ ~FailedWith(f.outcomes[2], 401) ) =>
             (f.result.ok \/ f.result.code # KindAuthentication)

C11_Witness ==
    \E p \in Procs :
        /\ FailedAuthentication(req[p])
        /\ FirstAttempt401(req[p])
        /\ Len(req[p].sent) = 1
        /\ req[p].thrown.status = 403

\* ---------------------------------------------------------------- C12
KindValidation == "VALIDATION_ERROR"

\* The frame of an execute() call whose input the rate-request schema rejects.
InvalidExecute(f) == f.op /\ f.pc # "idle" /\ ~RateRequestSchemaOk(f.input)

\* C12 (validation short-circuit): execute() on input the rate-request schema
\* rejects fails with kind Validation, having made no accessToken() call, no
\* request to the token endpoint and no transport call; the step that makes the
\* call leaves the token cache as it was.
C12_ValidationShortCircuit ==
    /\ [](\A p \in Procs :
            InvalidExecute(req[p]) =>
                /\ req[p].pc = "done"
                /\ ~req[p].opResult.ok
                /\ req[p].opResult.code = KindValidation
                /\ req[p].accessCalls = 0
                /\ req[p].authReqs = 0
                /\ req[p].sent = <<>>
                /\ req[p].wire = <<>>)
    /\ [][\A p \in Procs :
            (req[p].pc = "idle" /\ InvalidExecute(req'[p])) =>
                /\ cachedToken' = cachedToken
                /\ expiresAt' = expiresAt
                /\ issued' = issued]_vars

C12_Witness ==
    \E p \in Procs :
        /\ InvalidExecute(req[p])
        /\ req[p].input.packages = Arr(<<>>)
        /\ req[p].opResult.code = KindValidation
        /\ cachedToken # Null
        /\ now < expiresAt

\* ---------------------------------------------------------------- C13
\* execute() is over and the request() it made had failed.
RequestFailedInExecute(f) == f.op /\ f.pc = "done" /\ f.accessCalls > 0 /\ ~f.result.ok

\* C13 (the kind survives the capability boundary): when the request() made by
\* execute() fails with kind K (and status s), execute() fails with kind K (and
\* status s).
C13_KindSurvives ==
    \A p \in Procs :
        RequestFailedInExecute(req[p]) =>
            /\ ~req[p].opResult.ok
            /\ req[p].opResult.code = req[p].result.code
            /\ req[p].opResult.httpStatus = req[p].result.httpStatus

\* ---------------------------------------------------------------- C14
\* The failure under the error a call of request() or accessToken() ended with:
\* what authenticate() caught, or what the last transport attempt ended with.
Underlying(f) == IF f.thrown # NoFailure THEN f.thrown ELSE LastOutcome(f).error
CarrierAnswered(error) == error.axios /\ error.response
StatusZero(r) == ~r.ok /\ r.code = KindCarrierApi /\ r.httpStatus = 0

\* C14 (status 0 means no carrier status): an error of kind CarrierApi with
\* httpStatus 0, received from request(), accessToken() or execute(), is never
\* the report of a network call the carrier answered with a status code.
C14_StatusZeroNoResponse ==
    \A p \in Procs :
        LET f == req[p] IN
        /\ f.pc \in {"fetched", "done"} /\ f.accessCalls > 0 /\ StatusZero(f.result) =>
             ~CarrierAnswered(Underlying(f))
        /\ RequestFailedInExecute(f) /\ StatusZero(f.opResult) =>
             ~CarrierAnswered(Underlying(f))

\* ---------------------------------------------------------------- C15
\* C15 (cause retention): a structured error produced for an underlying failure
\* carries that failure as its cause: the error of accessToken() and request()
\* the failure caught, the error of execute() the schema's error for the input
\* or for the response body, or the error request() failed with.
C15_CauseRetained ==
    \A p \in Procs :
        LET f == req[p] IN
        /\ f.pc \in {"fetched", "done"} /\ f.accessCalls > 0 /\ ~f.result.ok =>
             f.result.cause = Underlying(f)
        /\ f.op /\ f.pc = "done" /\ f.invalid # NoFailure =>
             f.opResult.cause = f.invalid
        /\ f.op /\ f.pc = "done" /\ f.parseError # NoFailure =>
             f.opResult.cause = f.parseError
        /\ RequestFailedInExecute(f) =>
             \/ f.opResult = f.result
             \/ f.opResult.cause = f.result

\* ---------------------------------------------------------------- C16
Authenticating(f) == f.pc \in {"authenticating", "authResponse"}

\* C16 (a failed authentication never touches the cache): an accessToken() call
\* that misses leaves cachedToken and expiresAt as they are when it is made
\* (absent, when the clearToken() of a retry precedes it), and the step in which
\* its authenticate() fails, whatever the failure, fails the call with a
\* structured error and leaves cachedToken and expiresAt unchanged.
C16_FailedAuthKeepsCache ==
    [][\A p \in Procs :
          /\ (~Authenticating(req[p]) /\ Authenticating(req'[p])) =>
                IF req'[p].clears = req[p].clears /\ req[p].pc = "idle"
                THEN cachedToken' = cachedToken /\ expiresAt' = expiresAt
                ELSE cachedToken' = Null /\ expiresAt' = 0
          /\ (Authenticating(req[p]) /\ req'[p].pc \in {"done", "fetched"}) =>
                /\ ~req'[p].result.ok
                /\ req'[p].thrown # NoFailure
                /\ req'[p].result.code \in
                      {KindAuthentication, KindRateLimit, KindCarrierApi}
                /\ cachedToken' = cachedToken
                /\ expiresAt' = expiresAt]_vars

C16_Witness ==
    \E p \in Procs :
        /\ req[p].pc = "done"
        /\ req[p].thrown = ZodError
        /\ req[p].stale
        /\ cachedToken # Null
        /\ cachedToken = req[p].found
        /\ expiresAt = req[p].foundExp

\* ---------------------------------------------------------------- C17
\* C17 (header merge): every transport attempt of a request() call carries the
\* caller's envelope with Authorization set to Bearer and the token its latest
\* accessToken() returned; every other header, the method, the url and the data
\* are the envelope's, and the envelope stays as the caller passed it.
C17_HeaderMerge ==
    /\ [](\A p \in Procs :
            LET f == req[p] IN
            /\ Len(f.wire) = Len(f.sent)
            /\ \A i \in 1..Len(f.wire) :
                  /\ f.wire[i].headers["Authorization"] = Bearer(f.sent[i])
                  /\ \A n \in HeaderNames \ {"Authorization"} :
                        f.wire[i].headers[n] = f.config.headers[n]
                  /\ f.wire[i].method = f.config.method
                  /\ f.wire[i].url = f.config.url
                  /\ f.wire[i].data = f.config.data
            /\ f.pc = "inFlight" =>
                  f.wire[Len(f.wire)].headers["Authorization"] = Bearer(f.tok))
    /\ [][\A p \in Procs :
            (req[p].pc # "idle" /\ req'[p].pc # "idle") =>
                req'[p].config = req[p].config]_vars

C17_Witness ==
    \E p \in Procs :
        /\ req[p].pc = "inFlight"
        /\ req[p].retrying
        /\ req[p].config.headers["Authorization"] = <<"caller", Null>>
        /\ req[p].config.headers["Accept"] = <<"caller", Null>>
        /\ req[p].wire[1].headers["Authorization"] = Bearer(req[p].sent[1])
        /\ req[p].wire[2].headers["Authorization"] = Bearer(req[p].tok)
        /\ req[p].wire[2].headers["Accept"] = <<"caller", Null>>
        /\ req[p].sent[1] # req[p].tok

\* ---------------------------------------------------------------- C18
\* C18 (strict per-call ordering): the i-th transport attempt of a request() call
\* starts only when its i-th accessToken() has resolved, carrying that token;
\* clearToken() runs only after the first attempt has ended, the second
\* accessToken() only with it, and the retried attempt only after both.
C18_PerCallOrder ==
    /\ [](\A p \in Procs :
            LET f == req[p] IN
            /\ Len(f.sent) <= f.acquired
            /\ f.acquired <= f.accessCalls
            /\ f.clears = 1 => Len(f.outcomes) >= 1
            /\ f.accessCalls = 2 <=> f.clears = 1
            /\ Len(f.sent) = 2 => f.clears = 1 /\ f.acquired = 2)
    /\ [][\A p \in Procs :
            Len(req'[p].sent) = Len(req[p].sent) + 1 =>
                /\ req[p].pc = "tokenReady"
                /\ req[p].acquired = Len(req'[p].sent)
                /\ req'[p].sent[Len(req'[p].sent)] = req[p].tok]_vars

C18_Witness ==
    \E p, q \in Procs :
        /\ p # q
        /\ req[p].pc = "inFlight"
        /\ Len(req[p].sent) = 2
        /\ req[p].clears = 1
        /\ req[q].pc = "inFlight"
        /\ Len(req[q].sent) = 1
        /\ req[q].sent[1] = req[p].sent[2]

\* ---------------------------------------------------------------- C19
\* C19 (no single-flight guard): an accessToken() that finds the cache absent or
\* expired posts to the token endpoint, whatever authentications are in flight;
\* every answer that parses overwrites the cache when it is processed, so the
\* cache holds the token of the answer processed last (or nothing, after a
\* clearToken()).
C19_NoSingleFlight ==
    [][/\ \A p \in Procs :
            /\ (req'[p].accessCalls = req[p].accessCalls + 1 /\ ~req'[p].hit) =>
                  /\ req'[p].authReqs = req[p].authReqs + 1
                  /\ Authenticating(req'[p])
            /\ (Authenticating(req[p]) /\ req'[p].pc = "tokenReady") =>
                  /\ cachedToken' = req'[p].tok
                  /\ cachedToken' = req[p].resp.data.access_token
                  /\ expiresAt' = ExpiresAtFor(now, req[p].resp.data.expires_in.v)
       /\ cachedToken' # cachedToken =>
            \/ cachedToken' = Null
            \/ \E p \in Procs :
                  /\ Authenticating(req[p])
                  /\ req'[p].pc = "tokenReady"
                  /\ cachedToken' = req'[p].tok]_vars

\* Two calls overlapped, each posted, and the answer issued first was processed
\* last: its token is the cached one.
C19_Witness ==
    \E p, q \in Procs :
        /\ p # q
        /\ req[p].pc = "tokenReady" /\ ~req[p].hit /\ req[p].authReqs = 1
        /\ req[q].pc = "inFlight" /\ ~req[q].hit /\ req[q].authReqs = 1
        /\ req[p].accessCalls = 1 /\ req[q].accessCalls = 1
        /\ req[p].tok.id = 1
        /\ req[q].tok.id = 2
        /\ cachedToken = req[p].tok

\* ---------------------------------------------------------------- C20
KindOperationNotFound == "OPERATION_NOT_FOUND"

\* The operation of the latest register(key, .) among the calls, if any.
RECURSIVE MostRecentRegister(_, _)
MostRecentRegister(log, key) ==
    IF log = <<>> THEN NoOperation
    ELSE LET last == log[Len(log)] IN
         IF last.call = "register" /\ last.key = key THEN last.operation
         ELSE MostRecentRegister(SubSeq(log, 1, Len(log) - 1), key)

\* C20 (registry lookup): resolve(k) returns the instance the most recent
\* register(k, .) passed, whatever was registered before and under other keys,
\* and fails with kind OperationNotFound for a key never registered; resolve
\* leaves the registry as it is.
C20_RegistryLookup ==
    /\ [](\A i \in 1..Len(calls) :
            calls[i].call = "resolve" =>
                LET registered == MostRecentRegister(SubSeq(calls, 1, i - 1), calls[i].key)
                IN  IF registered = NoOperation
                    THEN /\ ~calls[i].result.ok
                         /\ calls[i].result.code = KindOperationNotFound
                    ELSE /\ calls[i].result.ok
                         /\ calls[i].operation = registered)
    /\ [](\A k \in Keys : operations[k] = MostRecentRegister(calls, k))
    /\ [][(Len(calls') = Len(calls) + 1 /\ calls'[Len(calls')].call = "resolve") =>
            operations' = operations]_vars

\* A key registered twice resolves to the second instance.
C20_Witness ==
    /\ Len(calls) = 3
    /\ calls[1].call = "register" /\ calls[1].key = "ups:rating"
    /\ calls[1].operation = "stubOperation"
    /\ calls[2].call = "register" /\ calls[2].key = "ups:rating"
    /\ calls[2].operation = "UpsRatingOperation"
    /\ calls[3].call = "resolve" /\ calls[3].key = "ups:rating"
    /\ calls[3].operation = "UpsRatingOperation"
    /\ calls[3].result.ok

\* ---------------------------------------------------------------- C21
\* C21 as claimed: the token of the retried attempt differs from the token of the
\* first attempt.
C21_RetryTokenDiffers ==
    \A p \in Procs :
        Len(req[p].sent) = 2 => req[p].sent[2] # req[p].sent[1]

\* C21, amended: the token of the retried attempt is never served from the cache:
\* it is the token of the token endpoint's answer to the authentication request
\* made after clearToken(), and so differs from the token of the first attempt
\* whenever the endpoint answers with a different token.
C21_RetryTokenFromEndpoint ==
    /\ [](\A p \in Procs :
            Len(req[p].sent) = 2 =>
                /\ req[p].retrying
                /\ ~req[p].hit
                /\ req[p].authReqs >= 1)
    /\ [][\A p \in Procs :
            /\ (req[p].retrying /\ Authenticating(req[p]) /\ req'[p].pc = "tokenReady") =>
                  /\ req[p].pc = "authResponse"
                  /\ req'[p].tok = req[p].resp.data.access_token
            /\ (Len(req[p].sent) = 1 /\ Len(req'[p].sent) = 2) =>
                  req'[p].sent[2] = req[p].tok]_vars

C21_Witness ==
    \E p \in Procs :
        /\ req[p].pc = "inFlight"
        /\ Len(req[p].sent) = 2
        /\ req[p].sent[2] # req[p].sent[1]
        /\ req[p].sent[2].id = req[p].sent[1].id + 1

\* ---------------------------------------------------------------- C22
\* A step in which clearToken() runs: on the provider itself, or as the first
\* statement of a retry.
ClearTokenStep ==
    \/ ~cleared /\ cleared'
    \/ cachedToken # Null /\ cachedToken' = Null
    \/ \E p \in Procs : req'[p].clears = req[p].clears + 1

\* C22: clearToken() can be called in every provider state; it leaves the cache
\* absent (cachedToken = null, expiresAt = 0) whatever validity the token had
\* left, posts nothing to the token endpoint, fails no call, and calling it again
\* on the cleared provider changes nothing.
C22_ClearTokenUnconditional ==
    /\ [](MicrotasksDone => ENABLED ClearToken)
    /\ [](MicrotasksDone /\ cachedToken = Null /\ expiresAt = 0 /\ cleared
            => ~ENABLED (ClearToken /\ vars' # vars))
    /\ [][ClearTokenStep =>
            /\ cachedToken' = Null
            /\ expiresAt' = 0
            /\ issued' = issued
            /\ now' = now
            /\ \A p \in Procs :
                  \/ req'[p] = req[p]
                  \/ /\ req'[p].clears = req[p].clears + 1
                     /\ req'[p].pc = "authenticating"
                     /\ req'[p].sent = req[p].sent]_vars

\* clearToken() has discarded a token that was cached by the call in flight and
\* is still valid.
C22_Witness ==
    /\ cleared
    /\ cachedToken = Null
    /\ expiresAt = 0
    /\ \E p \in Procs :
          /\ req[p].pc = "inFlight"
          /\ ~req[p].hit
          /\ Len(req[p].sent) = 1
          /\ now < req[p].sent[1].exp - EXPIRY_BUFFER_S * MsPerSecond

\* ---------------------------------------------------------------- C23
\* The request() made by execute() succeeded with a body the rate-response schema
\* rejects.
MalformedRateResponse(f) ==
    /\ f.op
    /\ f.pc \in {"fetched", "done"}
    /\ f.accessCalls > 0
    /\ f.result.ok
    /\ ~UpsRateResponseSchemaOk(RateResponseOf(f.result.data))

C24_FromUpsResponse ==
    mapper.pc = "responseMapped" =>
        /\ Len(mapper.quotes) = Len(mapper.shipments)
        /\ \A i \in 1..Len(mapper.shipments) :
              LET s == mapper.shipments[i]
                  q == mapper.quotes[i]
              IN  /\ q.carrier = "UPS"
                  /\ q.serviceCode = s.Code
                  /\ q.serviceName = IF s.Description.defined THEN s.Description.s
                                                              ELSE s.Code
                  /\ s.GuaranteedDays.defined =>
                        /\ q.estimatedDeliveryDays.set
                        /\ q.estimatedDeliveryDays.v = ParseNumber(s.GuaranteedDays.s).v
                  /\ ~s.GuaranteedDays.defined /\ s.TransitDays.defined =>
                        /\ q.estimatedDeliveryDays.set
                        /\ q.estimatedDeliveryDays.v = ParseNumber(s.TransitDays.s).v
                  /\ ~s.GuaranteedDays.defined /\ ~s.TransitDays.defined =>
                        ~q.estimatedDeliveryDays.set
                  /\ s.GuaranteedDate.defined =>
                        q.guaranteedDeliveryDate = s.GuaranteedDate
                  /\ ~s.GuaranteedDate.defined /\ s.TransitDate.defined =>
                        q.guaranteedDeliveryDate = s.TransitDate
                  /\ ~s.GuaranteedDate.defined /\ ~s.TransitDate.defined =>
                        ~q.guaranteedDeliveryDate.defined

\* Two shipments were mapped: the first with both sources of the delivery
\* estimate, the second with neither and without a service description.
C24_Witness ==
    /\ mapper.pc = "responseMapped"
    /\ Len(mapper.shipments) = 2
    /\ mapper.shipments[1].GuaranteedDays.defined
    /\ mapper.shipments[1].TransitDays.defined
    /\ mapper.shipments[1].GuaranteedDate.defined
    /\ mapper.shipments[1].TransitDate.defined
    /\ ~mapper.shipments[2].GuaranteedDays.defined
    /\ ~mapper.shipments[2].TransitDays.defined
    /\ ~mapper.shipments[2].Description.defined
    /\ mapper.quotes[1].estimatedDeliveryDays.v = 1
    /\ mapper.quotes[2].serviceName = <<"0", "3">>

\* ---------------------------------------------------------------- C25
\* The address lines toUpsRequest is to give for an address.
ExpectedAddressLine(address) ==
    IF address.line2.defined /\ Len(address.line2.s) > 0
    THEN <<address.line1.s, address.line2.s>>
    ELSE <<address.line1.s>>
CarriesAddress(wire, address) ==
    /\ wire.AddressLine = ExpectedAddressLine(address)
    /\ wire.City = address.city.s
    /\ wire.StateProvinceCode = address.stateCode.s
    /\ wire.PostalCode = address.postalCode.s
    /\ wire.CountryCode = address.countryCode.s

\* C25 (toUpsRequest): for a request the schema accepts, the wire Package list
\* has one entry per domain package, in order; NumOfPieces is the package count
\* in decimal; Shipper and ShipFrom carry the same address, the origin, and
\* ShipTo the destination; AddressLine is [line1, line2] when line2 is there and
\* not empty, and [line1] otherwise.
C25_ToUpsRequest ==
    mapper.pc = "requestMapped" =>
        LET input == mapper.input
            body == mapper.body
            n == Len(input.packages.items)
        IN  /\ Len(body.Package) = n
            /\ \A i \in 1..n :
                  /\ ParseNumber(body.Package[i].PackageWeight.Weight)
                        = input.packages.items[i].weightLbs
                  /\ ParseNumber(body.Package[i].Dimensions.Length)
                        = input.packages.items[i].lengthIn
                  /\ ParseNumber(body.Package[i].Dimensions.Width)
                        = input.packages.items[i].widthIn
                  /\ ParseNumber(body.Package[i].Dimensions.Height)
                        = input.packages.items[i].heightIn
            /\ ParseNumber(body.NumOfPieces) = Num(n)
            /\ Head(body.NumOfPieces) # "0"
            /\ body.Shipper.Address = body.ShipFrom.Address
            /\ CarriesAddress(body.Shipper.Address, input.origin)
            /\ CarriesAddress(body.ShipTo.Address, input.destination)

\* A request of two different packages was mapped, its origin with an empty
\* line2 and its destination with a line2.
C25_Witness ==
    /\ mapper.pc = "requestMapped"
    /\ Len(mapper.input.packages.items) = 2
    /\ mapper.input.packages.items[1] # mapper.input.packages.items[2]
    /\ mapper.input.origin.line2 = Str(<<>>)
    /\ mapper.input.destination.line2 = Str(<<"2">>)
    /\ Len(mapper.body.Shipper.Address.AddressLine) = 1
    /\ Len(mapper.body.ShipTo.Address.AddressLine) = 2

\* ---------------------------------------------------------------- C26
\* A request() call whose first transport attempt has settled.
FirstAttemptSettled(f) == IsRequest(f) /\ Len(f.outcomes) >= 1

\* C26 as claimed: when the call is over, clearToken() was invoked and a second
\* transport attempt made if and only if the first attempt failed with 401.
C26_RetryIff401 ==
    \A p \in Procs :
        LET f == req[p] IN
        FirstAttemptSettled(f) /\ f.pc = "done" =>
            (f.clears = 1 /\ Len(f.sent) = 2 <=> FirstAttempt401(f))

\* C26, amended: clearToken() is invoked by the call if and only if its first
\* transport attempt failed with a transport error of status exactly 401, and a
\* second attempt is made if and only if, in addition, the accessToken() that
\* follows resolves.  After a first attempt that ended any other way (success,
\* another status, no response, a non-transport exception) the call is over
\* after one accessToken() and one attempt, and the step that ends it leaves the
\* cache as it was.
C26_RetryOn401Only ==
    /\ [](\A p \in Procs :
            LET f == req[p] IN
            FirstAttemptSettled(f) =>
                /\ f.clears = 1 <=> FirstAttempt401(f)
                /\ f.clears = 0 <=> ~FirstAttempt401(f)
                /\ Len(f.sent) = 2 => FirstAttempt401(f) /\ f.acquired = 2
                /\ f.pc = "done" /\ FirstAttempt401(f) =>
                      (Len(f.sent) = 2 <=> f.acquired = 2)
                /\ ~FirstAttempt401(f) =>
                      /\ f.pc = "done"
                      /\ f.accessCalls = 1
                      /\ Len(f.sent) = 1)
    /\ [][\A p \in Procs :
            /\ ~FirstAttemptSettled(req[p])
            /\ FirstAttemptSettled(req'[p])
            /\ ~FirstAttempt401(req'[p])
            => /\ cachedToken' = cachedToken
               /\ expiresAt' = expiresAt]_vars

\* A first attempt answered 403 ended the call while a valid token was cached.
C26_Witness ==
    \E p \in Procs :
        /\ FirstAttemptSettled(req[p])
        /\ FailedWith(req[p].outcomes[1], 403)
        /\ req[p].pc = "done"
        /\ req[p].clears = 0
        /\ cachedToken = req[p].sent[1]
        /\ now < expiresAt

\* ---------------------------------------------------------------- C27
\* C27 (the retry re-authenticates, whatever other calls do): the step in which
\* a call runs clearToken() for its retry is the step in which its accessToken()
\* checks the cache: it finds the cache absent and posts to the token endpoint;
\* the token of the retried attempt is the one that post was answered with,
\* never one found in the cache.
C27_RetryReauthenticates ==
    /\ [](\A p \in Procs :
            req[p].retrying =>
                /\ ~req[p].hit
                /\ req[p].authReqs >= 1
                /\ req[p].found = Null)
    /\ [][\A p \in Procs :
            /\ req'[p].clears = req[p].clears + 1 =>
                  /\ cachedToken' = Null
                  /\ req'[p].pc = "authenticating"
                  /\ req'[p].accessCalls = req[p].accessCalls + 1
                  /\ req'[p].authReqs = req[p].authReqs + 1
                  /\ req'[p].acquired = req[p].acquired
            /\ (req[p].retrying /\ req'[p].acquired = req[p].acquired + 1) =>
                  /\ req[p].pc = "authResponse"
                  /\ req'[p].tok = req[p].resp.data.access_token]_vars

\* A call is on its retried attempt; its first attempt went out with a token a
\* concurrent call, still in flight, had placed in the cache and that had not
\* expired when the retry began.
C27_Witness ==
    \E p, q \in Procs :
        /\ p # q
        /\ req[p].pc = "inFlight"
        /\ Len(req[p].sent) = 2
        /\ req[q].pc = "inFlight"
        /\ ~req[q].hit
        /\ req[p].sent[1] = req[q].tok
        /\ req[p].sent[2] # req[q].tok
        /\ now < req[q].tok.exp - EXPIRY_BUFFER_S * MsPerSecond

\* ---------------------------------------------------------------- C28
\* A request() call is over because one of its accessToken() calls rejected.
AcquisitionFailed(f) == IsRequest(f) /\ f.pc = "done" /\ f.thrown # NoFailure

\* C28 as claimed: a call whose accessToken() rejected fails with that rejection
\* and has made no transport attempt since; when it was the accessToken() of the
\* retry, the token cache is absent.
C28_AcquisitionFailureStops ==
    \A p \in Procs :
        LET f == req[p] IN
        AcquisitionFailed(f) =>
            /\ f.result = AuthToStructuredError(f.thrown)
            /\ Len(f.sent) = f.accessCalls - 1
            /\ f.accessCalls = 2 => cachedToken = Null /\ expiresAt = 0

\* C28, amended: a call whose first accessToken() rejected fails with that
\* rejection and has made no transport attempt; a call whose accessToken() of the
\* retry rejected fails with that rejection (of kind Authentication, RateLimit or
\* CarrierApi) and has made no second attempt.  The call itself stores no token
\* after its clearToken(): the cache is then absent unless the authentication of
\* another call has stored a token in the meantime.
C28_AcquisitionFailureEndsCall ==
    /\ [](\A p \in Procs :
            LET f == req[p] IN
            AcquisitionFailed(f) =>
                /\ f.result = AuthToStructuredError(f.thrown)
                /\ f.result.code \in {KindAuthentication, KindRateLimit, KindCarrierApi}
                /\ Len(f.sent) = f.accessCalls - 1
                /\ Len(f.outcomes) = Len(f.sent)
                /\ f.acquired = Len(f.sent)
                /\ f.accessCalls = 2 => f.clears = 1 /\ FirstAttempt401(f))
    /\ [][\A p \in Procs :
            /\ (req'[p].clears = req[p].clears + 1) =>
                  cachedToken' = Null /\ expiresAt' = 0
            /\ (req[p].retrying /\ Authenticating(req[p]) /\ cachedToken' # cachedToken) =>
                  \/ cachedToken' = Null /\ expiresAt' = 0
                  \/ /\ req'[p].pc = "tokenReady"
                     /\ cachedToken' = req'[p].tok
                  \/ \E q \in Procs \ {p} :
                        /\ req[q].pc = "authResponse"
                        /\ req'[q].pc = "tokenReady"
                        /\ cachedToken' = req[q].resp.data.access_token
            /\ (req[p].retrying /\ Authenticating(req[p]) /\ AcquisitionFailed(req'[p])) =>
                  cachedToken' = cachedToken /\ expiresAt' = expiresAt]_vars

\* The accessToken() of a retry rejected and ended the call after one attempt,
\* while the cache holds the token another call stored after the clearToken().
C28_Witness ==
    \E p \in Procs :
        /\ AcquisitionFailed(req[p])
        /\ req[p].accessCalls = 2
        /\ req[p].clears = 1
        /\ Len(req[p].sent) = 1
        /\ cachedToken # Null
        /\ cachedToken # req[p].sent[1]

\* ---------------------------------------------------------------- C29
\* A 2xx answer of the token endpoint with a string access_token and an
\* expires_in that coerces to a positive number.
TokenAndExpiryGood(a) ==
    /\ a.ok
    /\ a.data.access_token # Null
    /\ a.data.expires_in.numeric
    /\ a.data.expires_in.v > 0
AuthSucceeded(p, a) ==
    /\ req'[p].pc = "tokenReady"
    /\ req'[p].tok = a.data.access_token
    /\ cachedToken' = a.data.access_token
    /\ expiresAt' = ExpiresAtFor(now, a.data.expires_in.v)

\* C29 as claimed: authenticate() succeeds and caches the token on every 2xx
\* answer with a string access_token and a positive expires_in, whatever the
\* other fields.
C29_TwoFieldsDecide ==
    [][\A p \in Procs :
         \A a \in FailingAuthAnswers \cup {req[p].resp} :
            Authenticate(p, a) /\ TokenAndExpiryGood(a) => AuthSucceeded(p, a)]_vars

\* C29, amended: on a 2xx answer with a string access_token and a positive
\* expires_in, authenticate() succeeds and caches the token exactly when the
\* other six fields are there with the types the schema declares, whatever
\* their values; when one of them is missing or of another type the call fails
\* with kind CarrierApi and status 0 and the cache stays as it was.
C29_SchemaFieldsDecide ==
    [][\A p \in Procs :
         \A a \in FailingAuthAnswers \cup {req[p].resp} :
            Authenticate(p, a) /\ TokenAndExpiryGood(a) =>
                IF a.data.rest
                THEN AuthSucceeded(p, a)
                ELSE /\ req'[p].pc = "done"
                     /\ StatusZero(req'[p].result)
                     /\ req'[p].thrown = ZodError
                     /\ cachedToken' = cachedToken
                     /\ expiresAt' = expiresAt]_vars

\* An authentication has just succeeded and cached its token.
C29_Witness ==
    \E p \in Procs :
        /\ req[p].pc = "tokenReady"
        /\ ~req[p].hit
        /\ req[p].tok # Null
        /\ cachedToken = req[p].tok
        /\ expiresAt = ExpiresAtFor(now, cachedTtl)

\* ---------------------------------------------------------------- C30
\* C30 (cache state): cachedToken and expiresAt change together.  Without a
\* cached token expiresAt is 0; with one, expiresAt is the instant the response
\* that supplied it was processed plus (its expires_in - 60) seconds.  A step
\* changes either field only by clearing both or by an authenticate() that
\* succeeds on the answer to its POST.
C30_CacheState ==
    /\ [](cachedToken = Null => expiresAt = 0)
    /\ [](cachedToken # Null =>
            /\ expiresAt = cachedAt + (cachedTtl - 60) * 1000
            /\ cachedAt <= now)
    /\ [][(cachedToken' # cachedToken \/ expiresAt' # expiresAt) =>
            \/ /\ cachedToken' = Null
               /\ expiresAt' = 0
               /\ \/ req' = req
                  \/ \E p \in Procs : req'[p].clears = req[p].clears + 1
            \/ \E p \in Procs :
                  /\ req[p].pc = "authResponse"
                  /\ req'[p].pc = "tokenReady"
                  /\ req[p].resp.ok
                  /\ cachedToken' = req[p].resp.data.access_token
                  /\ cachedToken' # Null
                  /\ expiresAt' = now + (req[p].resp.data.expires_in.v - 60) * 1000]_vars

\* A token is cached and time has passed since its response was processed.
C30_Witness ==
    /\ cachedToken # Null
    /\ cachedAt < now
    /\ now < expiresAt
    /\ expiresAt = cachedAt + 10 * 1000
    /\ \E p \in Procs : req[p].clears = 1

\* ---------------------------------------------------------------- C31
\* C31 (a 401 clears the rejected token only): in the step in which a call runs
\* clearToken() after a 401, the cache is absent or holds the token that call
\* presented on the attempt that failed.
C31_ClearsRejectedTokenOnly ==
    [][\A p \in Procs :
          req'[p].clears = req[p].clears + 1 =>
              \/ cachedToken = Null
              \/ cachedToken = req[p].sent[Len(req[p].sent)]]_vars

\* ---------------------------------------------------------------- C32
\* C32 (the executor holds no token): the token of a transport attempt is the
\* one the accessToken() call the same request() made just before resolved
\* with, and that one is the cached token of a hit or the token of the answer
\* to the call's own POST; two calls on their first attempt send the same token
\* only when one of them took it from the cache.
C32_NoTokenOfItsOwn ==
    /\ [](\A p, q \in Procs :
            /\ p # q
            /\ req[p].pc = "inFlight" /\ Len(req[p].sent) = 1
            /\ req[q].pc = "inFlight" /\ Len(req[q].sent) = 1
            /\ req[p].sent[1] = req[q].sent[1]
            => req[p].hit \/ req[q].hit)
    /\ [][\A p \in Procs :
            /\ Len(req'[p].sent) = Len(req[p].sent) + 1 =>
                  /\ req[p].pc = "tokenReady"
                  /\ req[p].acquired = Len(req'[p].sent)
                  /\ req[p].accessCalls = Len(req'[p].sent)
                  /\ req'[p].sent[Len(req'[p].sent)] = req[p].tok
            /\ req'[p].acquired = req[p].acquired + 1 =>
                  IF req'[p].hit
                  THEN req'[p].tok = cachedToken /\ cachedToken # Null
                  ELSE /\ req[p].pc = "authResponse"
                       /\ req'[p].tok = req[p].resp.data.access_token]_vars

\* Two calls are in flight with the same token: one authenticated for it, the
\* other took it from the cache.
C32_Witness ==
    \E p, q \in Procs :
        /\ p # q
        /\ req[p].pc = "inFlight" /\ Len(req[p].sent) = 1 /\ ~req[p].hit
        /\ req[q].pc = "inFlight" /\ Len(req[q].sent) = 1 /\ req[q].hit
        /\ ~req[p].direct /\ ~req[q].direct
        /\ req[p].sent[1] = req[q].sent[1]

\* ---------------------------------------------------------------- C33
\* The call is over: it resolved, or rejected with a classified error.
Terminal(f) ==
    /\ f.pc = "done"
    /\ \/ f.result.ok
       \/ f.result.code \in {KindAuthentication, KindRateLimit, KindCarrierApi}

\* C33 (termination): when the calls to the token endpoint and the transport
\* calls all complete, every request() call ends, in success or in a classified
\* error, whatever the other callers do; it has made at most two accessToken()
\* calls, at most one clearToken() and at most two transport attempts.
C33_Termination ==
    /\ \A p \in Procs : IsRequest(req[p]) ~> Terminal(req[p])
    /\ [](\A p \in Procs :
            /\ req[p].accessCalls <= 2
            /\ req[p].clears <= 1
            /\ Len(req[p].sent) <= 2
            /\ Len(req[p].outcomes) <= 2)

\* A call ended after a retry while the call of the other caller is under way.
C33_Witness ==
    \E p, q \in Procs :
        /\ p # q
        /\ Terminal(req[p])
        /\ req[p].accessCalls = 2
        /\ req[p].clears = 1
        /\ Len(req[p].sent) = 2
        /\ req[q].pc = "inFlight"

====
